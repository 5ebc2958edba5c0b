----------------------------- MODULE NfcReader -----------------------------
(***************************************************************************)
(* The handle to an NFC reader backend (nfc/mod.rs).  Clones of the handle *)
(* send requests over a bounded channel; each carries the sender of a      *)
(* oneshot channel on which its caller awaits the response.  A caller can  *)
(* drop the future of its call at any await, which closes the oneshot.     *)
(*                                                                         *)
(* A oneshot is identified by the number of the call.  Of what a call      *)
(* returned only the failure is kept; the response itself is what the      *)
(* backend sends.                                                          *)
(***************************************************************************)
EXTENDS Integers, Sequences

CONSTANTS
    Callers,    \* tasks that each hold a clone of the handle
    Capacity,   \* of the channel: 4
    MaxCalls    \* bound on the number of calls

ASSUME ReaderAssumption == Capacity \in Nat \ {0} /\ MaxCalls \in Nat

VARIABLES
    calls,      \* the call each caller is in, or the last one it was in
    begun,      \* the number of calls so far
    queue,      \* the channel
    closed,     \* the backend's end of the channel is gone
    dropped     \* all handles are gone

readerVars == <<calls, begun, queue, closed, dropped>>

Operations == {"WaitForCard", "WaitForRemoval", "ReadNdefText"}

Returned(failure) == [at |-> "idle", op |-> "none", n |-> 0, failure |-> failure]

ReaderInit ==
    /\ calls = [c \in Callers |-> Returned("none")]
    /\ begun = 0
    /\ queue = <<>>
    /\ closed = FALSE
    /\ dropped = FALSE

(* response.is_closed(): nobody awaits the response to the request any     *)
(* more                                                                    *)
IsClosed(request) ==
    ~(calls[request.from].at = "awaiting" /\ calls[request.from].n = request.n)

(* calls after response.send(..); it has no effect on a closed response.   *)
Respond(request) ==
    [c \in Callers |-> IF c = request.from /\ ~IsClosed(request)
                       THEN Returned("none") ELSE calls[c]]

(* calls after the backend let go of all its requests: response_rx.await   *)
(* fails.                                                                  *)
LetGo(requests) ==
    [c \in Callers |-> IF \E r \in requests : c = r.from /\ ~IsClosed(r)
                       THEN Returned("Disconnected") ELSE calls[c]]

-----------------------------------------------------------------------------
(* roundtrip *)

Call(c, op) ==
    /\ calls[c].at = "idle" /\ ~dropped
    /\ begun < MaxCalls /\ begun' = begun + 1
    /\ calls' = [calls EXCEPT ![c] =
                    [at |-> "sending", op |-> op, n |-> begun', failure |-> "none"]]
    /\ UNCHANGED <<queue, closed, dropped>>

(* Mutant: one request too many.                                           *)
HasRoomForOneMore == Len(queue) <= Capacity

HasRoom == Len(queue) < Capacity

Send(c) ==
    /\ calls[c].at = "sending"
    /\ ~closed /\ HasRoom
    /\ queue' = Append(queue, [op |-> calls[c].op, from |-> c, n |-> calls[c].n])
    /\ calls' = [calls EXCEPT ![c].at = "awaiting"]
    /\ UNCHANGED <<begun, closed, dropped>>

SendFails(c) ==
    /\ calls[c].at = "sending" /\ closed
    /\ calls' = [calls EXCEPT ![c] = Returned("Disconnected")]
    /\ UNCHANGED <<begun, queue, closed, dropped>>

(* The caller drops the future.                                            *)
Abandon(c) ==
    /\ calls[c].at # "idle"
    /\ calls' = [calls EXCEPT ![c] = Returned("none")]
    /\ UNCHANGED <<begun, queue, closed, dropped>>

(* The last clone of the handle goes; a call in progress would borrow one. *)
DropHandles ==
    /\ \A c \in Callers : calls[c].at = "idle"
    /\ ~dropped /\ dropped' = TRUE
    /\ UNCHANGED <<calls, begun, queue, closed>>
=============================================================================
