---------------------------- MODULE ReaderProofs ----------------------------
(***************************************************************************)
(* Safety of the NFC reader, for any number of callers, cards and calls:   *)
(* when a call fails, and what a call that returns may say.                *)
(***************************************************************************)
EXTENDS Mfrc522, NdefProofs

CallRecord == [at : {"idle", "sending", "awaiting"},
               op : Operations \union {"none"}, n : Nat,
               failure : {"none", "Disconnected"}]

Request == [op : Operations, from : Callers, n : Nat]

Free == {"init", "recv", "ended"}

(* A request in the channel or with the backend comes from a call that is  *)
(* not about to send it: from now on, whoever awaits its response has      *)
(* awaited it all the time.                                                *)
Sent(r) ==
    /\ r.n <= begun
    /\ calls[r.from].n = r.n => calls[r.from].at # "sending"

ReaderInv ==
    /\ begun \in Nat
    /\ calls \in [Callers -> CallRecord]
    /\ \A c \in Callers :
          /\ calls[c].n <= begun
          /\ calls[c].at = "sending" => calls[c].op \in Operations
    /\ queue \in Seq(Request)
    /\ \A i \in 1..Len(queue) : Sent(queue[i])
    /\ pc \in Operations \union Free \union {"again", "send"}
    /\ pc \notin Free => request \in Request /\ Sent(request)
    /\ closed => pc = "ended"
    /\ DisconnectedMeansGone
    /\ \A c \in Callers : calls[c].at # "idle" => field \in seen[c]

(* ReaderInv is an invariant.                                              *)
LEMMA ReaderAlways == Spec => []ReaderInv
<1>1. Init => ReaderInv
  BY DEF Init, ReaderInit, Returned, ReaderInv, CallRecord, Free,
         DisconnectedMeansGone
<1>2. ReaderInv /\ [Next]_vars => ReaderInv'
  <2> SUFFICES ASSUME ReaderInv, [Next]_vars PROVE ReaderInv'
    OBVIOUS
  <2> DEFINE Steady ==
          /\ begun' \in Nat /\ begun <= begun'
          /\ calls' \in [Callers -> CallRecord]
          /\ \A c \in Callers :
                /\ calls'[c].n <= begun'
                /\ calls'[c].at = "sending" =>
                      /\ calls'[c].op \in Operations
                      /\ calls'[c] = calls[c] \/ calls'[c].n = begun + 1
  <2>1. \A c \in Callers : calls'[c].at # "idle" => field' \in seen'[c]
    <3>1. CASE UNCHANGED vars
      BY <3>1 DEF vars, readerVars, chipVars, ReaderInv
    <3>2. CASE Record
      BY <3>2 DEF Record
    <3> QED BY <3>1, <3>2 DEF Next
  <2> DEFINE StillSent(r) ==
          /\ r.n <= begun'
          /\ calls'[r.from].n = r.n => calls'[r.from].at # "sending"
  <2>2. ASSUME Steady, NEW r \in Request, Sent(r) PROVE StillSent(r)
    <3>1. /\ r.from \in Callers /\ r.n \in Nat /\ begun \in Nat
          /\ r.n <= begun
      BY <2>2 DEF Request, Sent, ReaderInv
    <3>2. calls'[r.from].n = r.n /\ calls'[r.from].at = "sending"
             => calls'[r.from] = calls[r.from]
      BY <2>2, <3>1
    <3> QED BY <2>2, <3>1, <3>2 DEF Sent
  <2>3. UNCHANGED <<calls, begun>> => Steady
    BY DEF ReaderInv, CallRecord
  <2>4. /\ \A f \in {"none", "Disconnected"} :
               /\ Returned(f) \in CallRecord /\ Returned(f).n = 0
               /\ Returned(f).at = "idle" /\ Returned(f).failure = f
    BY DEF Returned, CallRecord
  <2>5. ASSUME UNCHANGED begun, calls' \in [Callers -> CallRecord],
               \A c \in Callers : \/ calls'[c] = calls[c]
                                  \/ calls'[c].n = 0 /\ calls'[c].at = "idle"
        PROVE  Steady
    BY <2>5 DEF ReaderInv, CallRecord
  <2>6. ASSUME Steady, DisconnectedMeansGone', closed' => pc' = "ended",
               pc' \in Operations \union Free \union {"again", "send"},
               queue' = queue \/ queue' = <<>>,
               pc' \notin Free => pc \notin Free /\ request' = request
        PROVE  ReaderInv'
    <3>1. queue' \in Seq(Request) /\ \A i \in 1..Len(queue') : StillSent(queue'[i])
      <4>1. CASE queue' = queue
        <5>1. \A i \in 1..Len(queue) : queue[i] \in Request /\ Sent(queue[i])
          BY DEF ReaderInv
        <5> QED BY <2>2, <2>6, <4>1, <5>1 DEF ReaderInv
      <4>2. CASE queue' = <<>>
        BY <4>2
      <4> QED BY <2>6, <4>1, <4>2
    <3>2. pc' \notin Free => request' \in Request /\ StillSent(request')
      BY <2>2, <2>6 DEF ReaderInv
    <3> QED BY <2>1, <2>6, <3>1, <3>2 DEF ReaderInv, Sent
  <2>7. CASE UNCHANGED vars \/ Leave \/ \E card \in Cards : MoveCard(card)
    <3>1. UNCHANGED <<readerVars, threadVars>> \/ Leave
      BY <2>7 DEF vars, MoveCard
    <3>2. UNCHANGED <<calls, begun, queue, closed, pc, request>>
      BY <3>1 DEF readerVars, threadVars, Leave, DropHandles
    <3> QED BY <2>3, <2>6, <3>2 DEF ReaderInv, DisconnectedMeansGone
  <2>8. ASSUME NEW c \in Callers, Caller(c) PROVE ReaderInv'
    <3>1. UNCHANGED <<pc, request, closed>>
      BY <2>8 DEF Caller, StartCall, Call, Send, SendFails, Abandon, threadVars
    <3>2. CASE StartCall(c)
      <4>1. PICK op \in Operations : Call(c, op)
        BY <3>2 DEF StartCall
      <4>2. Steady /\ DisconnectedMeansGone' /\ queue' = queue
        <5> DEFINE call == [at |-> "sending", op |-> op, n |-> begun + 1,
                            failure |-> "none"]
        <5>1. /\ calls' = [calls EXCEPT ![c] = call] /\ begun' = begun + 1
              /\ UNCHANGED queue
          BY <4>1 DEF Call
        <5>2. /\ call \in CallRecord /\ call.n = begun + 1 /\ call.failure = "none"
              /\ call.op \in Operations
          BY DEF CallRecord, ReaderInv
        <5> HIDE DEF call
        <5>3. Steady
          BY <5>1, <5>2 DEF ReaderInv, CallRecord
        <5> QED BY <3>1, <5>1, <5>2, <5>3 DEF ReaderInv, DisconnectedMeansGone
      <4> QED BY <2>6, <3>1, <4>2 DEF ReaderInv
    <3>3. CASE Send(c)
      <4> DEFINE r == [op |-> calls[c].op, from |-> c, n |-> calls[c].n]
      <4>1. Steady /\ DisconnectedMeansGone'
        <5>1. /\ calls' \in [Callers -> CallRecord] /\ UNCHANGED begun
              /\ calls'[c].at = "awaiting" /\ calls'[c].n = calls[c].n
              /\ calls'[c].failure = calls[c].failure
              /\ \A d \in Callers : d # c => calls'[d] = calls[d]
          BY <3>3 DEF Send, ReaderInv, CallRecord
        <5>2. begun \in Nat
          BY DEF ReaderInv
        <5> QED BY <3>1, <5>1, <5>2 DEF ReaderInv, DisconnectedMeansGone
      <4>2. calls[c] \in CallRecord /\ calls[c].op \in Operations
        BY <3>3 DEF Send, ReaderInv
      <4>3. r \in Request /\ StillSent(r) /\ queue' = Append(queue, r)
        BY <3>3, <4>2 DEF Send, ReaderInv, CallRecord, Request
      <4> HIDE DEF r
      <4>4. /\ queue' \in Seq(Request)
            /\ \A i \in 1..Len(queue') : \/ queue'[i] = r
                                         \/ i \in 1..Len(queue) /\ queue'[i] = queue[i]
        BY <4>3, AppendProperties DEF ReaderInv
      <4>5. \A i \in 1..Len(queue) : queue[i] \in Request /\ StillSent(queue[i])
        BY <2>2, <4>1 DEF ReaderInv
      <4>6. pc \notin Free => StillSent(request)
        BY <2>2, <4>1 DEF ReaderInv
      <4> QED BY <2>1, <3>1, <4>1, <4>3, <4>4, <4>5, <4>6 DEF ReaderInv, Sent
    <3>4. CASE SendFails(c)
      <4>1. Steady /\ DisconnectedMeansGone'
        BY <2>4, <2>5, <3>1, <3>4 DEF SendFails, ReaderInv, DisconnectedMeansGone
      <4> QED BY <2>6, <3>1, <3>4, <4>1 DEF SendFails, ReaderInv
    <3>5. CASE Abandon(c)
      <4>1. Steady /\ DisconnectedMeansGone'
        BY <2>4, <2>5, <3>1, <3>5 DEF Abandon, ReaderInv, DisconnectedMeansGone
      <4> QED BY <2>6, <3>1, <3>5, <4>1 DEF Abandon, ReaderInv
    <3> QED BY <2>8, <3>2, <3>3, <3>4, <3>5 DEF Caller
  <2>9. ASSUME End PROVE ReaderInv'
    <3>1. Steady
      BY <2>4, <2>5, <2>9 DEF End, LetGo, ReaderInv
    <3> QED BY <2>6, <2>9, <3>1 DEF End, DisconnectedMeansGone, Free
  <2>10. CASE InitFails \/ ReceiveNone
    BY <2>9, <2>10 DEF InitFails, ReceiveNone
  <2>11. CASE Receive
    <3>1. /\ request' = Head(queue) /\ queue' = Tail(queue) /\ pc' = Head(queue).op
          /\ queue # <<>> /\ pc = "recv" /\ UNCHANGED <<calls, begun, closed>>
      BY <2>11 DEF Receive
    <3>2. /\ Head(queue) = queue[1] /\ 1 \in 1..Len(queue)
          /\ queue' \in Seq(Request)
          /\ \A i \in 1..Len(queue') :
                i + 1 \in 1..Len(queue) /\ queue'[i] = queue[i + 1]
      BY <3>1, HeadTailProperties, EmptySeq DEF ReaderInv
    <3>3. \A i \in 1..Len(queue) : queue[i] \in Request /\ StillSent(queue[i])
      BY <2>2, <2>3, <3>1 DEF ReaderInv
    <3>4. request' \in Request /\ StillSent(request')
      BY <3>1, <3>2, <3>3
    <3>5. pc' \in Operations
      BY <3>1, <3>4 DEF Request
    <3>6. DisconnectedMeansGone' /\ ~closed'
      BY <3>1 DEF ReaderInv, DisconnectedMeansGone
    <3> QED BY <2>1, <2>3, <3>1, <3>2, <3>3, <3>4, <3>5, <3>6 DEF ReaderInv, Sent
  <2>12. CASE LeaveAbandoned \/ SendResponse
    <3>1. Steady /\ DisconnectedMeansGone'
      BY <2>4, <2>5, <2>12
         DEF LeaveAbandoned, SendResponse, LetGo, Respond, ReaderInv,
             DisconnectedMeansGone
    <3> QED BY <2>6, <2>12, <3>1
            DEF LeaveAbandoned, SendResponse, Free, ReaderInv
  <2>13. ASSUME UNCHANGED readerVars, pc \in Operations \union {"init", "again"},
                \/ pc' = "recv"
                \/ /\ pc # "init" /\ request' = request
                   /\ pc' \in Operations \union {"again", "send"}
         PROVE  ReaderInv'
    <3>1. pc # "ended" /\ (pc # "init" => pc \notin Free)
      BY <2>13 DEF Operations, Free
    <3> QED BY <2>3, <2>6, <2>13, <3>1
            DEF readerVars, ReaderInv, DisconnectedMeansGone, Free, Operations
  <2>14. CASE InitSucceeds \/ CheckForRelease \/ CheckAgain \/ ReadTag \/ ReadDone
    BY <2>13, <2>14 DEF InitSucceeds, CheckForRelease, CheckAgain, ReadTag,
                        ReadDone, Goto, Operations
  <2>15. CASE SelectTarget
    BY <2>9, <2>13, <2>15 DEF SelectTarget, Goto, threadVars, Operations
  <2> QED BY <2>7, <2>8, <2>10, <2>11, <2>12, <2>14, <2>15
          DEF Next, Step, Thread
<1> QED BY <1>1, <1>2, PTL DEF Spec

(* A call fails with Disconnected only if "the backend is gone"            *)
(* (nfc/mod.rs:23-34): a request that is abandoned, or queued behind an    *)
(* abandoned one, costs no other call its response.                        *)
THEOREM DisconnectedIsGone == Spec => []DisconnectedMeansGone
<1>1. ReaderInv => DisconnectedMeansGone
  BY DEF ReaderInv
<1> QED BY <1>1, ReaderAlways, PTL

(* A response that is awaited after a step was awaited before it, by the   *)
(* same call: no oneshot is opened or reused (roundtrip, nfc/mod.rs).      *)
LEMMA StillAwaited ==
    ASSUME ReaderInv, Step, Record, pc \notin Free, UNCHANGED request,
           ~IsClosed(request)'
    PROVE  /\ ~IsClosed(request)
           /\ seen'[request.from] = seen[request.from] \union {field'}
           /\ field \in seen[request.from]
<1> DEFINE from == request.from
<1>1. /\ calls'[from].at = "awaiting" /\ calls'[from].n = request.n
      /\ from \in Callers /\ calls \in [Callers -> CallRecord]
  BY DEF IsClosed, ReaderInv, Request
<1>2. calls'[from].at = "awaiting" =>
         /\ calls[from].at \in {"sending", "awaiting"}
         /\ calls'[from].n = calls[from].n
  <2>1. CASE UNCHANGED calls
    BY <1>1, <2>1 DEF CallRecord, IsClosed
  <2>2. \A failure : Returned(failure).at = "idle"
    BY DEF Returned
  <2>3. CASE \E c \in Callers : Caller(c)
    <3>1. PICK c \in Callers : Caller(c)
      BY <2>3
    <3>2. CASE StartCall(c)
      BY <1>1, <3>2 DEF StartCall, Call, CallRecord
    <3>3. CASE Send(c)
      BY <1>1, <3>3 DEF Send, CallRecord
    <3>4. CASE SendFails(c) \/ Abandon(c)
      BY <1>1, <2>2, <3>4 DEF SendFails, Abandon, CallRecord
    <3> QED BY <3>1, <3>2, <3>3, <3>4 DEF Caller
  <2>4. CASE Thread /\ ~UNCHANGED calls
    <3>1. \/ calls' = Respond(request)
          \/ \E requests : calls' = LetGo(requests)
      BY <2>4 DEF Thread, InitSucceeds, InitFails, Receive, ReceiveNone,
                  LeaveAbandoned, SelectTarget, CheckForRelease, CheckAgain,
                  ReadTag, ReadDone, SendResponse, End, readerVars
    <3> QED BY <1>1, <2>2, <3>1 DEF Respond, LetGo, CallRecord
  <2> QED BY <2>1, <2>3, <2>4
          DEF Step, Leave, DropHandles, MoveCard, readerVars
<1>3. ~IsClosed(request)
  BY <1>1, <1>2 DEF IsClosed, ReaderInv, Sent
<1> QED BY <1>1, <1>2, <1>3 DEF Record, ReaderInv

(* Between its two commands check_for_release has either seen, at a time   *)
(* of the call, that there is not one card, or has just missed the one     *)
(* that is there.                                                          *)
NotOne(f) == \A card \in Cards : f # {card}

AgainInv ==
    pc = "again" /\ ~IsClosed(request) =>
        missed \/ \E f \in seen[request.from] : NotOne(f)

TruthInv == AnswersAreTrue /\ AgainInv

(* What the reader reports was so at some time during the call it reports  *)
(* it to (select_target and check_for_release, mfrc522.rs:217-238, and     *)
(* the response that travels with its request).                            *)
THEOREM ReaderTellsTheTruth == Spec => []AnswersAreTrue
<1>1. Init => TruthInv
  BY DEF Init, TruthInv, AnswersAreTrue, Delivers, AgainInv
<1>2. ReaderInv /\ TruthInv /\ [Next]_vars => TruthInv'
  <2> SUFFICES ASSUME ReaderInv, TruthInv, [Next]_vars PROVE TruthInv'
    OBVIOUS
  <2>1. CASE UNCHANGED vars
    BY <2>1 DEF vars, readerVars, threadVars, chipVars, TruthInv,
                AnswersAreTrue, Delivers, AgainInv, IsClosed
  <2> DEFINE from == request.from
  <2>2. ASSUME Step, Record, pc \notin Free, UNCHANGED request,
               ~IsClosed(request)'
        PROVE  /\ ~IsClosed(request)
               /\ seen'[from] = seen[from] \union {field'}
               /\ field \in seen[from]
    BY <2>2, StillAwaited
  <2>3. CASE Record /\ (Leave \/ \E c \in Callers : Caller(c))
    <3>1. Step /\ UNCHANGED <<threadVars, chipVars>>
      BY <2>3 DEF Step, Leave, Caller, StartCall
    <3> QED BY <2>2, <2>3, <3>1
            DEF threadVars, chipVars, TruthInv, AnswersAreTrue, Delivers,
                AgainInv, Free
  <2>4. ASSUME Record, NEW card \in Cards, MoveCard(card) PROVE TruthInv'
    <3>1. Step /\ UNCHANGED threadVars
      BY <2>4 DEF Step, MoveCard
    <3>2. AnswersAreTrue'
      BY <2>2, <2>4, <3>1 DEF threadVars, TruthInv, AnswersAreTrue, Delivers, Free
    <3>3. NotOne(field) \/ NotOne(field')
      BY <2>4 DEF MoveCard, NotOne
    <3>4. AgainInv'
      BY <2>2, <2>4, <3>1, <3>3 DEF threadVars, TruthInv, AgainInv, Free, NotOne
    <3> QED BY <3>2, <3>4 DEF TruthInv
  <2>5. ASSUME pc' \notin {"send", "again"} PROVE TruthInv'
    BY <2>5 DEF TruthInv, AnswersAreTrue, Delivers, AgainInv
  <2>6. ASSUME Record, Thread, pc \in Operations \union {"again"},
               UNCHANGED <<readerVars, request, field>>, ~IsClosed(request)'
        PROVE  seen'[from] = seen[from] \union {field}
    BY <2>2, <2>6 DEF Step, Operations, Free
  <2>7. CASE Record /\ SelectTarget
    <3>1. CASE pc' # "send"
      BY <2>5, <2>7, <3>1 DEF SelectTarget, Goto, End, threadVars
    <3>2. CASE pc' = "send"
      <4>1. PICK card \in field : answer' = [kind |-> "WaitForCard", value |-> card]
        BY <2>7, <3>2 DEF SelectTarget, Goto, End, threadVars
      <4>2. pc = "WaitForCard" /\ UNCHANGED <<readerVars, request, field>>
        BY <2>7, <3>2 DEF SelectTarget, Goto, End, threadVars, Commanded
      <4>3. ~IsClosed(request)' => field \in seen'[from]
        BY <2>6, <2>7, <4>2 DEF Thread, Operations
      <4> QED BY <3>2, <4>1, <4>2, <4>3
              DEF TruthInv, AnswersAreTrue, Delivers, AgainInv
    <3> QED BY <3>1, <3>2
  <2>8. CASE Record /\ CheckForRelease
    <3>1. PICK response \in WakeUp :
             /\ Commanded(response, NoCard)
             /\ Goto(IF response = "found" THEN pc ELSE "again", Nothing)
      BY <2>8 DEF CheckForRelease
    <3>2. pc = "WaitForRemoval" /\ UNCHANGED <<readerVars, request, field>>
      BY <2>8, <3>1 DEF CheckForRelease, Goto, Commanded
    <3>3. response # "found" => NotOne(field) \/ missed'
      BY <3>1 DEF WakeUp, Commanded, NotOne
    <3>4. ~IsClosed(request)' => field \in seen'[from]
      BY <2>6, <2>8, <3>2 DEF Thread, Operations
    <3> QED BY <3>1, <3>2, <3>3, <3>4
            DEF Goto, TruthInv, AnswersAreTrue, Delivers, AgainInv
  <2>9. CASE Record /\ CheckAgain
    <3>1. PICK response \in WakeUp :
             /\ Commanded(response, NoCard)
             /\ IF response = "silent"
                THEN Goto("send", [kind |-> "WaitForRemoval"])
                ELSE Goto("WaitForRemoval", Nothing)
      BY <2>9 DEF CheckAgain
    <3>2. pc = "again" /\ UNCHANGED <<readerVars, request, field>>
      BY <2>9, <3>1 DEF CheckAgain, Goto, Commanded
    <3>3. CASE response # "silent"
      BY <2>5, <3>1, <3>3 DEF Goto
    <3>4. CASE response = "silent"
      <4>1. missed => NotOne(field)
        BY <3>1, <3>4 DEF WakeUp, NotOne
      <4>2. ~IsClosed(request)' =>
               /\ seen'[from] = seen[from] \union {field}
               /\ missed \/ \E f \in seen[from] : NotOne(f)
        BY <2>6, <2>9, <3>2
           DEF Thread, TruthInv, AgainInv, IsClosed, readerVars
      <4> QED BY <3>1, <3>2, <3>4, <4>1, <4>2
              DEF Goto, TruthInv, AnswersAreTrue, Delivers, AgainInv, NotOne
    <3> QED BY <3>3, <3>4
  <2>10. CASE ReadDone
    BY <2>10 DEF ReadDone, Goto, TruthInv, AnswersAreTrue, Delivers, AgainInv
  <2>11. CASE \/ InitSucceeds \/ InitFails \/ Receive \/ ReceiveNone
              \/ LeaveAbandoned \/ ReadTag \/ SendResponse
    <3>1. queue # <<>> => Head(queue) \in Request
      BY HeadTailProperties DEF ReaderInv
    <3>2. queue # <<>> => Head(queue).op \in Operations
      BY <3>1 DEF Request
    <3> QED BY <2>5, <2>11, <3>2
            DEF InitSucceeds, InitFails, Receive, ReceiveNone, LeaveAbandoned,
                ReadTag, SendResponse, End, Operations
  <2> QED BY <2>1, <2>3, <2>4, <2>7, <2>8, <2>9, <2>10, <2>11
          DEF Next, Step, Thread
<1>3. TruthInv => AnswersAreTrue
  BY DEF TruthInv
<1> QED BY <1>1, <1>2, <1>3, ReaderAlways, PTL DEF Spec

(* The state of the reader has its type: the channel keeps to its capacity *)
(* however calls are made, abandoned and served (mpsc::channel in          *)
(* nfc/mod.rs), the thread holds a request exactly while it serves one,    *)
(* and it believes a card to be selected only while it is on the reader.   *)
THEOREM ReaderTypeCorrect == Spec => []TypeOK
<1>1. Init => TypeOK
  BY ReaderAssumption, CardAssumption
     DEF Init, ReaderInit, Returned, TypeOK, NoRequest, Operations
<1>2. ReaderInv /\ TypeOK /\ [Next]_vars /\ ReaderInv' => TypeOK'
  <2> SUFFICES ASSUME ReaderInv, TypeOK, [Next]_vars, ReaderInv' PROVE TypeOK'
    OBVIOUS
  <2>1. \A c \in Callers : /\ calls'[c].at \in {"idle", "sending", "awaiting"}
                            /\ calls'[c].n \in 0..begun'
                            /\ calls'[c].failure \in {"none", "Disconnected"}
    BY DEF ReaderInv, CallRecord
  <2>2. pc' \in Operations \union {"init", "recv", "again", "send", "ended"}
    BY DEF ReaderInv, Free
  <2>3. ASSUME NEW r \in Request PROVE r # NoRequest
    BY DEF Request, NoRequest, Operations
  <2>4. (pc' \in {"init", "recv", "ended"}) = (request' = NoRequest)
    <3>1. pc' \notin Free => request' # NoRequest
      BY <2>3 DEF ReaderInv
    <3>2. pc' \in Free => request' = NoRequest
      <4>1. \/ UNCHANGED <<pc, request>> \/ request' = NoRequest
            \/ pc' \in Operations \union {"again", "send"} 
            \/ pc = "init" /\ UNCHANGED request
        <5>1. Receive => pc' \in Operations
          <6>1. queue # <<>> => Head(queue) \in Request
            BY HeadTailProperties DEF ReaderInv
          <6> QED BY <6>1 DEF Receive, Request
        <5>2. [Thread]_<<pc, request>>
          BY DEF Next, Step, Leave, Caller, StartCall, MoveCard, vars, threadVars
        <5> QED BY <5>1, <5>2
                DEF Thread, InitSucceeds, InitFails, ReceiveNone, LeaveAbandoned,
                    SelectTarget, CheckForRelease, CheckAgain, ReadTag, ReadDone,
                    SendResponse, End, Goto, threadVars, Operations
      <4> QED BY <4>1 DEF TypeOK, Free, Operations
    <3> QED BY <3>1, <3>2 DEF Free
  <2>5. Len(queue') <= Capacity
    <3>1. \/ queue' = queue \/ queue' = <<>> \/ Receive
          \/ \E c \in Callers : Send(c)
      BY DEF Next, Step, Thread, InitSucceeds, InitFails, ReceiveNone,
             LeaveAbandoned, SelectTarget, CheckForRelease, CheckAgain, ReadTag,
             ReadDone, SendResponse, End, Leave, DropHandles, Caller, StartCall,
             Call, SendFails, Abandon, MoveCard, vars, readerVars
    <3>2. Len(queue) \in Nat /\ Len(queue) <= Capacity /\ Capacity \in Nat
      <4>1. queue \in Seq(Request)
        BY DEF ReaderInv
      <4>2. Len(queue) <= Capacity
        BY DEF TypeOK
      <4> QED BY <4>1, <4>2, ReaderAssumption
    <3>3. ASSUME NEW c \in Callers, Send(c) PROVE Len(queue') <= Capacity
      BY <3>2, <3>3 DEF Send, HasRoom, ReaderInv
    <3>4. CASE Receive
      <4>1. Len(queue') = Len(queue) - 1
        BY <3>4, HeadTailProperties DEF Receive, ReaderInv
      <4> QED BY <3>2, <4>1
    <3> QED BY <3>1, <3>2, <3>3, <3>4
  <2>6. field' \subseteq Cards /\ active' \in field' \union {NoCard}
    <3>1. ASSUME NEW card \in Cards, MoveCard(card)
          PROVE  field' \subseteq Cards /\ active' \in field' \union {NoCard}
      BY <3>1 DEF MoveCard, TypeOK
    <3>2. ~(\E card \in Cards : MoveCard(card))
             => UNCHANGED field /\ active' \in {active, NoCard} \union field
      BY DEF Next, Step, Thread, InitSucceeds, InitFails, Receive, ReceiveNone,
             LeaveAbandoned, SelectTarget, CheckForRelease, CheckAgain, ReadTag,
             ReadDone, SendResponse, Leave, Caller, StartCall, Commanded,
             vars, chipVars
    <3> QED BY <3>1, <3>2 DEF TypeOK
  <2>7. seen' \in [Callers -> SUBSET SUBSET Cards]
    <3>1. CASE UNCHANGED seen
      BY <3>1 DEF TypeOK
    <3>2. CASE Record
      <4>1. \A c \in Callers : /\ seen[c] \subseteq SUBSET Cards
                                /\ field' \in SUBSET Cards
        BY <2>6 DEF TypeOK
      <4> QED BY <3>2, <4>1 DEF Record
    <3> QED BY <3>1, <3>2 DEF Next, vars
  <2> QED BY <2>1, <2>2, <2>4, <2>5, <2>6, <2>7 DEF TypeOK
<1> QED BY <1>1, <1>2, ReaderAlways, PTL DEF Spec

(* While read_ndef_text runs, the parser holds what the blocks so far of   *)
(* the selected card amount to; once no card is selected, the read can     *)
(* only fail.                                                              *)
IsTextOfACard(result) ==
    \E f \in seen[request.from] : \E card \in f :
        result = TextOf(AddData(NewParser, Contents[card]))

TextInv ==
    /\ pc = "ReadNdefText" /\ active # NoCard =>
          Reads(Contents[active], Capability[active])
    /\ pc = "ReadNdefText" /\ reading.at = "finished" /\ IsOk(reading.result)
          /\ ~IsClosed(request) => IsTextOfACard(reading.result)
    /\ TextIsOneCards

(* A text that read_ndef_text returns (mfrc522.rs:240-277) is the one that *)
(* the parser finds in the whole memory of one card, and that card was on  *)
(* the reader during the call: it is never put together from two cards,    *)
(* whatever cards and calls come and go between two blocks.                *)
THEOREM TextOfOneCard == Spec => []TextIsOneCards
<1>1. Init => TextInv
  BY DEF Init, TextInv, TextIsOneCards, Delivers
<1>2. ReaderInv /\ TypeOK /\ TextInv /\ [Next]_vars => TextInv'
  <2> SUFFICES ASSUME ReaderInv, TypeOK, TextInv, [Next]_vars PROVE TextInv'
    OBVIOUS
  <2>1. CASE UNCHANGED vars
    BY <2>1 DEF vars, readerVars, threadVars, chipVars, TextInv, TextIsOneCards,
                Delivers, IsTextOfACard, IsClosed, Reads
  <2>2. CASE Step /\ Record /\ UNCHANGED threadVars
    <3>1. pc = "ReadNdefText" => active' \in {active, NoCard}
      BY <2>2 DEF Step, Thread, InitSucceeds, InitFails, Receive, ReceiveNone,
                  LeaveAbandoned, SelectTarget, CheckForRelease, CheckAgain,
                  ReadTag, ReadDone, SendResponse, Leave, Caller, StartCall,
                  MoveCard, chipVars
    <3>2. pc \in {"ReadNdefText", "send"} /\ ~IsClosed(request)' =>
             ~IsClosed(request) /\ seen[request.from] \subseteq seen'[request.from]
      BY <2>2, StillAwaited DEF threadVars, Free
    <3>3. UNCHANGED <<pc, request, answer, reading>>
      BY <2>2 DEF threadVars
    <3>4. pc' = "ReadNdefText" /\ active' # NoCard =>
             Reads(Contents[active], Capability[active])'
      BY <3>1, <3>3 DEF TextInv, Reads
    <3>5. TextIsOneCards'
      BY <3>2, <3>3 DEF TextInv, TextIsOneCards, Delivers
    <3>6. pc' = "ReadNdefText" /\ reading'.at = "finished" /\ IsOk(reading'.result)
             /\ ~IsClosed(request)' => IsTextOfACard(reading.result)'
      BY <3>2, <3>3 DEF TextInv, IsTextOfACard
    <3> QED BY <3>4, <3>5, <3>6 DEF TextInv
  <2>3. CASE Receive
    <3>1. queue # <<>> => Head(queue) \in Request
      BY HeadTailProperties DEF ReaderInv
    <3>2. pc' \in Operations /\ (pc' = "ReadNdefText" => reading' = [at |-> "capability"])
      BY <2>3, <3>1 DEF Receive, Request, StartRead
    <3> QED BY <3>2 DEF TextInv, TextIsOneCards, Delivers, Reads, Operations
  <2>4. CASE ReadTag /\ Record
    <3>1. /\ pc = "ReadNdefText" /\ pc' = pc /\ request' = request
          /\ UNCHANGED <<calls, field>>
      BY <2>4 DEF ReadTag, readerVars, chipVars
    <3>2. CASE ReadFails /\ active' = NoCard
      <4>1. reading'.at = "finished" /\ ~IsOk(reading'.result)
        BY <3>2, Results DEF ReadFails, Finished
      <4> QED BY <3>1, <3>2, <4>1 DEF TextInv, TextIsOneCards, Delivers
    <3>3. CASE /\ active # NoCard /\ UNCHANGED active
               /\ \/ ReadCapability(Capability[active])
                  \/ /\ reading.at = "blocks"
                     /\ ReadBlock(BlockOf(Contents[active], reading.quad))
      <4> DEFINE memory == Contents[active]
                 acc == Fed(memory, 16 * reading.quad)
      <4>1. /\ active \in field /\ active \in Cards
            /\ Capability[active] \in Byte /\ memory \in Seq(Byte)
            /\ 8 * Capability[active] <= Len(memory)
            /\ Reads(memory, Capability[active])
        BY <3>1, <3>3, CardAssumption DEF TypeOK, TextInv
      <4> HIDE DEF memory
      <4>2. PICK m, c : m = memory /\ c = Capability[active]
        OBVIOUS
      <4>3. Reads(m, c)'
        BY <3>3, <4>1, <4>2, ReadSteps DEF memory
      <4>4. Reads(Contents[active], Capability[active])'
        BY <3>3, <4>2, <4>3 DEF Reads, memory
      <4>5. ASSUME reading'.at = "finished", IsOk(reading'.result)
            PROVE  reading'.result = TextOf(AddData(NewParser, memory))
        <5>1. reading.at = "blocks" /\ ReadBlock(BlockOf(memory, reading.quad))
          <6>1. ~IsOk(Err("Incomplete"))
            BY Results
          <6>2. ~ReadCapability(Capability[active])
            BY <4>5, <6>1 DEF ReadCapability, Finished
          <6> QED BY <3>3, <6>2 DEF memory
        <5>2. /\ 16 * reading.quad <= Len(memory) /\ reading.quad \in Nat \ {0}
              /\ AddData(reading.parser, BlockOf(memory, reading.quad)) = acc.parser
              /\ \A n \in 0..Len(memory) : Shape(Fed(memory, n))
          BY <4>1, <4>2, <5>1, ReadSteps
        <5>3. 16 * reading.quad \in Nat /\ 16 * reading.quad \in 0..Len(memory)
          BY <4>1, <5>2
        <5>4. Shape(acc)
          BY <5>2, <5>3
        <5> HIDE DEF acc
        <5>5. IsDone(acc.parser) /\ reading'.result = TextOf(acc.parser)
          BY <4>5, <5>1, <5>2, Results DEF ReadBlock, Finished
        <5>6. acc.returned
          BY <4>5, <5>4, <5>5, Results
        <5>7. Fed(memory, Len(memory)) = acc
          BY <4>1, <5>2, <5>3, <5>6, FeedStops DEF acc, Fed
        <5> QED BY <5>5, <5>7 DEF AddData, Fed
      <4>6. ~IsClosed(request)' => field \in seen'[request.from]
        <5>1. Step /\ pc \notin Free
          BY <2>4, <3>1 DEF Step, Thread, Free
        <5> QED BY <2>4, <3>1, <5>1, StillAwaited
      <4>7. reading'.at = "finished" /\ IsOk(reading'.result) /\ ~IsClosed(request)'
               => IsTextOfACard(reading.result)'
        BY <3>1, <4>1, <4>5, <4>6 DEF IsTextOfACard, memory
      <4> QED BY <3>1, <4>4, <4>7 DEF TextInv, TextIsOneCards, Delivers
    <3> QED BY <2>4, <3>2, <3>3 DEF ReadTag, chipVars
  <2>5. CASE ReadDone /\ Record
    <3>1. /\ pc = "ReadNdefText" /\ pc' = "send" /\ request' = request
          /\ reading.at = "finished"
          /\ answer' = [kind |-> "ReadNdefText", value |-> reading.result]
      BY <2>5 DEF ReadDone, Goto
    <3>2. ~IsClosed(request)' =>
             ~IsClosed(request) /\ seen[request.from] \subseteq seen'[request.from]
      BY <2>5, <3>1, StillAwaited DEF Step, Thread, Free
    <3> QED BY <3>1, <3>2 DEF TextInv, TextIsOneCards, Delivers, IsTextOfACard
  <2>6. CASE \/ InitSucceeds \/ InitFails \/ ReceiveNone \/ LeaveAbandoned
             \/ SendResponse \/ (SelectTarget /\ ~UNCHANGED threadVars)
             \/ CheckForRelease \/ CheckAgain
    <3> DEFINE Elsewhere ==
            pc' # "ReadNdefText" /\ (pc' = "send" => answer'.kind # "ReadNdefText")
    <3>1. ASSUME \/ InitSucceeds \/ InitFails \/ ReceiveNone \/ LeaveAbandoned
                 \/ SendResponse
          PROVE  Elsewhere
      BY <3>1 DEF InitSucceeds, InitFails, ReceiveNone, LeaveAbandoned,
                  SendResponse, End
    <3>2. ASSUME SelectTarget, ~UNCHANGED threadVars PROVE Elsewhere
      <4>1. End \/ \E card : Goto("send", [kind |-> "WaitForCard", value |-> card])
        <5>1. PICK response \in WakeUp :
                 \/ UNCHANGED threadVars
                 \/ \E card \in field : IF card \in OddCards THEN End
                       ELSE Goto("send", [kind |-> "WaitForCard", value |-> card])
          BY <3>2, Zenon DEF SelectTarget
        <5> QED BY <3>2, <5>1, Zenon
      <4>2. CASE End
        BY <4>2 DEF End
      <4>3. ASSUME NEW card, Goto("send", [kind |-> "WaitForCard", value |-> card])
            PROVE  Elsewhere
        BY <4>3 DEF Goto
      <4> QED BY <4>1, <4>2, <4>3
    <3>3. ASSUME CheckForRelease PROVE Elsewhere
      BY <3>3 DEF CheckForRelease, Goto
    <3>4. ASSUME CheckAgain PROVE Elsewhere
      BY <3>4 DEF CheckAgain, Goto
    <3>5. Elsewhere
      BY <2>6, <3>1, <3>2, <3>3, <3>4
    <3> QED BY <3>5 DEF TextInv, TextIsOneCards, Delivers
  <2> QED BY <2>1, <2>2, <2>3, <2>4, <2>5, <2>6
          DEF Next, Step, Thread, Leave, Caller, StartCall, MoveCard
<1>3. TextInv => TextIsOneCards
  BY DEF TextInv
<1> QED BY <1>1, <1>2, <1>3, ReaderAlways, ReaderTypeCorrect, PTL DEF Spec
=============================================================================
