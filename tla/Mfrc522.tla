------------------------------ MODULE Mfrc522 ------------------------------
(***************************************************************************)
(* The MFRC522 backend (nfc/mfrc522.rs): a thread that takes one request   *)
(* at a time from the channel of NfcReader and serves it by polling the    *)
(* chip.  spawn hands out the handle once the chip is initialized; with    *)
(* serve_blocking the application made the channel, so that calls can be   *)
(* made before.  A step is one command to the chip; between two of them    *)
(* cards come and go and callers go on.                                    *)
(*                                                                         *)
(* The chip and the cards are external.  They are modelled by what the     *)
(* code expects of them: a card that is present can go unnoticed, but not  *)
(* by two commands in a row (comment in check_for_release); several cards  *)
(* collide; only the card selected last answers mf_read, until it leaves   *)
(* or another command wakes the cards up.                                  *)
(***************************************************************************)
EXTENDS NfcReader, TagRead

CONSTANTS
    Cards,        \* the UIDs of the cards
    OddCards,     \* those whose UID has a length that NfcUid refuses
    Capability,   \* [Cards -> Byte]
    Contents,     \* [Cards -> Seq(Byte)], the memory of the cards: 8 bytes for
                  \* each unit of the capability
    NoCard,
    MaxMoves      \* bound on how often a card is placed or removed

ASSUME CardAssumption ==
    /\ OddCards \subseteq Cards /\ NoCard \notin Cards /\ MaxMoves \in Nat
    /\ Capability \in [Cards -> Byte]
    /\ \A card \in Cards : /\ Contents[card] \in Seq(Byte)
                            /\ 8 * Capability[card] <= Len(Contents[card])

VARIABLES
    entry,    \* how the backend was started, spawn or serve_blocking, until it
              \* is ready
    pc,       \* what the thread is doing
    request,  \* the request it serves
    answer,   \* the response it is about to send
    field,    \* the cards on the reader
    active,   \* the card selected last, or NoCard
    missed,   \* the last command went unanswered by a card that was there
    moves,
    seen      \* history: for each caller in a call, the values of `field` since

threadVars == <<entry, pc, request, answer, reading>>
chipVars == <<field, active, missed, moves>>
vars == <<readerVars, threadVars, chipVars, seen>>

NoRequest == [op |-> "none"]
Nothing == [kind |-> "none"]

Init ==
    /\ ReaderInit
    /\ entry \in {"spawn", "serve_blocking"}
    /\ pc = "init" /\ request = NoRequest /\ answer = Nothing
    /\ reading = NotReading
    /\ field \in {{}} \union {{c} : c \in Cards}
    /\ active = NoCard /\ missed = FALSE /\ moves = 0
    /\ seen = [c \in Callers |-> {}]

-----------------------------------------------------------------------------
(* The chip: which answers a command may get, and what it leaves behind.   *)

(* reqa or wupa                                                            *)
WakeUp ==
    IF field = {} THEN {"silent"}
    ELSE {IF \E c \in Cards : field = {c} THEN "found" ELSE "collision"}
         \union (IF missed THEN {} ELSE {"silent"})

Commanded(response, card) ==
    /\ missed' = (response = "silent" /\ field # {})
    /\ active' = card
    /\ UNCHANGED <<field, moves>>

-----------------------------------------------------------------------------
(* The thread *)

Goto(label, answered) ==
    /\ pc' = label /\ answer' = answered
    /\ UNCHANGED <<entry, request>>

(* The thread ends; its end of the channel and the response it holds go    *)
(* too.                                                                    *)
End ==
    /\ pc' = "ended" /\ closed' = TRUE /\ queue' = <<>>
    /\ calls' = LetGo(({queue[i] : i \in DOMAIN queue} \union {request})
                         \ {NoRequest})
    /\ request' = NoRequest
    /\ UNCHANGED <<begun, dropped, entry, answer, reading>>

InitSucceeds ==
    /\ pc = "init" /\ pc' = "recv" /\ entry' = "ready"
    /\ UNCHANGED <<readerVars, chipVars, request, answer, reading>>

InitFails ==
    /\ pc = "init" /\ End
    /\ UNCHANGED chipVars

(* blocking_recv                                                           *)
Receive ==
    /\ pc = "recv" /\ queue # <<>>
    /\ request' = Head(queue) /\ queue' = Tail(queue)
    /\ pc' = Head(queue).op
    /\ IF Head(queue).op = "ReadNdefText" THEN StartRead ELSE UNCHANGED reading
    /\ UNCHANGED <<calls, begun, closed, dropped, entry, answer, chipVars>>

(* blocking_recv returns None once the handles are gone and the queue is   *)
(* empty.                                                                  *)
ReceiveNone ==
    /\ pc = "recv" /\ queue = <<>> /\ dropped
    /\ End
    /\ UNCHANGED chipVars

(* Mutants: an abandoned wait is not left, and a wait is left after one    *)
(* poll.                                                                   *)
NeverLeave == FALSE
LeaveUnasked ==
    /\ pc \in {"WaitForCard", "WaitForRemoval"}
    /\ calls' = LetGo({request})
    /\ pc' = "recv" /\ request' = NoRequest
    /\ UNCHANGED <<begun, queue, closed, dropped, entry, answer, reading>>
    /\ UNCHANGED chipVars

(* continue 'main_loop: the response is dropped, nobody awaits it.         *)
LeaveAbandoned ==
    /\ pc \in {"WaitForCard", "WaitForRemoval"} /\ IsClosed(request)
    /\ calls' = LetGo({request})
    /\ pc' = "recv" /\ request' = NoRequest
    /\ UNCHANGED <<begun, queue, closed, dropped, entry, answer, reading>>
    /\ UNCHANGED chipVars

(* select_target.  Of several cards none may be told apart, or any one; a  *)
(* select that fails counts as silence.  reqa and select are one step: a   *)
(* card that leaves between them makes select fail, and one that comes     *)
(* then has not heard the reqa.                                            *)
SelectTarget ==
    /\ pc = "WaitForCard" /\ ~IsClosed(request)
    /\ \E response \in WakeUp :
          \/ /\ response # "found" /\ Commanded(response, NoCard)
             /\ UNCHANGED <<readerVars, threadVars>>
          \/ \E card \in field :
                /\ response # "silent" /\ Commanded(response, card)
                /\ IF card \in OddCards
                   THEN End
                   ELSE /\ Goto("send", [kind |-> "WaitForCard", value |-> card])
                        /\ UNCHANGED <<readerVars, reading>>

(* Mutant: one wupa is believed.                                           *)
CheckOnce ==
    /\ pc = "WaitForRemoval" /\ ~IsClosed(request)
    /\ \E response \in WakeUp :
          /\ Commanded(response, NoCard)
          /\ IF response = "silent"
             THEN Goto("send", [kind |-> "WaitForRemoval"])
             ELSE Goto(pc, Nothing)
    /\ UNCHANGED <<readerVars, reading>>

(* check_for_release, its first wupa and its second                        *)
CheckForRelease ==
    /\ pc = "WaitForRemoval" /\ ~IsClosed(request)
    /\ \E response \in WakeUp :
          /\ Commanded(response, NoCard)
          /\ Goto(IF response = "found" THEN pc ELSE "again", Nothing)
    /\ UNCHANGED <<readerVars, reading>>

CheckAgain ==
    /\ pc = "again"
    /\ \E response \in WakeUp :
          /\ Commanded(response, NoCard)
          /\ IF response = "silent"
             THEN Goto("send", [kind |-> "WaitForRemoval"])
             ELSE Goto("WaitForRemoval", Nothing)
    /\ UNCHANGED <<readerVars, reading>>

(* Mutant: the card that is there now is selected, and the read goes on.   *)
ReadTagReselects ==
    /\ pc = "ReadNdefText" /\ reading.at # "finished"
    /\ \/ ReadFails /\ active' = NoCard /\ UNCHANGED <<field, missed, moves>>
       \/ /\ active = NoCard /\ active' \in field
          /\ UNCHANGED <<field, missed, moves, reading>>
       \/ /\ active # NoCard /\ ReadCapability(Capability[active])
          /\ UNCHANGED chipVars
       \/ /\ active # NoCard /\ reading.at = "blocks"
          /\ ReadBlock(BlockOf(Contents[active], reading.quad))
          /\ UNCHANGED chipVars
    /\ UNCHANGED <<readerVars, entry, pc, request, answer>>

(* read_ndef_text: mf_read fails, or returns data of the active card.      *)
ReadTag ==
    /\ pc = "ReadNdefText" /\ reading.at # "finished"
    /\ \/ ReadFails /\ active' = NoCard /\ UNCHANGED <<field, missed, moves>>
       \/ /\ active # NoCard /\ ReadCapability(Capability[active])
          /\ UNCHANGED chipVars
       \/ /\ active # NoCard /\ reading.at = "blocks"
          /\ ReadBlock(BlockOf(Contents[active], reading.quad))
          /\ UNCHANGED chipVars
    /\ UNCHANGED <<readerVars, entry, pc, request, answer>>

ReadDone ==
    /\ pc = "ReadNdefText" /\ reading.at = "finished"
    /\ Goto("send", [kind |-> "ReadNdefText", value |-> reading.result])
    /\ reading' = NotReading
    /\ UNCHANGED <<readerVars, chipVars>>

(* let _ = response.send(..)                                               *)
SendResponse ==
    /\ pc = "send"
    /\ calls' = Respond(request)
    /\ pc' = "recv" /\ request' = NoRequest /\ answer' = Nothing
    /\ UNCHANGED <<begun, queue, closed, dropped, entry, reading, chipVars>>

Thread ==
    \/ InitSucceeds \/ InitFails \/ Receive \/ ReceiveNone \/ LeaveAbandoned
    \/ SelectTarget \/ CheckForRelease \/ CheckAgain \/ ReadTag \/ ReadDone
    \/ SendResponse

-----------------------------------------------------------------------------
(* The callers and the cards *)

StartCall(c) ==
    /\ entry # "spawn"
    /\ \E op \in Operations : Call(c, op)
    /\ UNCHANGED <<threadVars, chipVars>>

Caller(c) ==
    \/ StartCall(c)
    \/ /\ Send(c) \/ SendFails(c) \/ Abandon(c)
       /\ UNCHANGED <<threadVars, chipVars>>

Leave ==
    /\ DropHandles
    /\ UNCHANGED <<threadVars, chipVars>>

(* A card is placed on the reader or taken away.                           *)
MoveCard(card) ==
    /\ moves < MaxMoves /\ moves' = moves + 1
    /\ field' = IF card \in field THEN field \ {card} ELSE field \union {card}
    /\ active' = IF active = card THEN NoCard ELSE active
    /\ missed' = FALSE
    /\ UNCHANGED <<readerVars, threadVars>>

Step ==
    \/ Thread
    \/ \E c \in Callers : Caller(c)
    \/ Leave
    \/ \E card \in Cards : MoveCard(card)

Record ==
    seen' = [c \in Callers |-> IF calls'[c].at = "idle" THEN {}
                              ELSE IF calls[c].at = "idle" THEN {field'}
                              ELSE seen[c] \union {field'}]

Next == Step /\ Record

Spec == Init /\ [][Next]_vars

(* The thread runs, a task whose channel operation can complete is woken   *)
(* up, and the permits of the channel are handed out in the order they     *)
(* were asked for. Nothing makes a card come or go, or a caller give up.   *)
Fairness ==
    /\ WF_vars(Thread /\ Record)
    /\ \A c \in Callers :
          /\ SF_vars(Send(c) /\ UNCHANGED <<threadVars, chipVars>> /\ Record)
          /\ WF_vars(SendFails(c) /\ UNCHANGED <<threadVars, chipVars>> /\ Record)

FairSpec == Spec /\ Fairness

-----------------------------------------------------------------------------
(* Properties *)

(* The channel never holds more than its capacity, the thread serves a     *)
(* request exactly while it is between receiving it and letting go of it,  *)
(* and a selected card is on the reader.                                   *)
TypeOK ==
    /\ \A c \in Callers : /\ calls[c].at \in {"idle", "sending", "awaiting"}
                          /\ calls[c].n \in 0..begun
                          /\ calls[c].failure \in {"none", "Disconnected"}
    /\ Len(queue) <= Capacity
    /\ pc \in Operations \union {"init", "recv", "again", "send", "ended"}
    /\ (pc \in {"init", "recv", "ended"}) = (request = NoRequest)
    /\ field \subseteq Cards /\ active \in field \union {NoCard}
    /\ seen \in [Callers -> SUBSET SUBSET Cards]

(* The thread is about to send a response of this kind, and it is awaited. *)
Delivers(kind) == pc = "send" /\ answer.kind = kind /\ ~IsClosed(request)

(* What the reader reports to a caller was true at some time during its    *)
(* own call and is not left over from an earlier one: a card that was      *)
(* there; no card, unless several cards collided.                          *)
AnswersAreTrue ==
    /\ Delivers("WaitForCard") =>
          \E f \in seen[request.from] : answer.value \in f
    /\ Delivers("WaitForRemoval") =>
          \E f \in seen[request.from] : \A card \in Cards : f # {card}

(* A text that was read is the text of one card that was there during the  *)
(* call, never put together from blocks of two.                            *)
TextIsOneCards ==
    Delivers("ReadNdefText") /\ IsOk(answer.value) =>
        \E f \in seen[request.from] : \E card \in f :
            answer.value = TextOf(AddData(NewParser, Contents[card]))

(* Disconnected is returned only if "the backend is gone".                 *)
DisconnectedMeansGone ==
    \A c \in Callers : calls[c].failure = "Disconnected" => pc = "ended"

(* The thread waits on behalf of a caller that still wants to know, for a  *)
(* card that does not come or go, or for one of several cards.             *)
WaitsForCards ==
    \/ /\ pc = "WaitForCard" /\ ~IsClosed(request)
       /\ \A card \in Cards : field # {card}
    \/ /\ pc \in {"WaitForRemoval", "again"} /\ ~IsClosed(request)
       /\ field # {}

(* Nothing but such a wait keeps a call from returning, or the thread from *)
(* ending once the handles are gone: neither a wait that was abandoned nor *)
(* requests that nobody awaits any more hold the reader up, and a backend  *)
(* that ends, before it is ready or later, takes no call with it.  The     *)
(* calls being finitely many, this is where they come to rest.             *)
OnlyLiveWaitsBlock ==
    <>[](\/ WaitsForCards
         \/ /\ \A c \in Callers : calls[c].at = "idle"
            /\ dropped => pc = "ended")
=============================================================================
