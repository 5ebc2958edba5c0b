------------------------------ MODULE Playback ------------------------------
(***************************************************************************)
(* Audio playback (audio.rs).  play_file and play_reader put a task into   *)
(* the queue of the runtime's blocking pool and return a PlaybackHandle.   *)
(* The owner awaits the handle, drops it or detaches it, at any time; the  *)
(* task looks at the flag `cancelled` that dropping sets, before it opens  *)
(* the output device, before it starts to play and every 50 ms from then   *)
(* on.  The pool, the device and the decoder are external.                 *)
(***************************************************************************)
EXTENDS Integers, Sequences, FiniteSets

CONSTANTS
    Playbacks,
    Endless,    \* the playbacks whose source never ends, like a dial tone
    PoolSize    \* threads of the blocking pool

ASSUME PlaybackAssumption == Endless \subseteq Playbacks /\ PoolSize \in Nat \ {0}

VARIABLES
    handle,     \* none, held, dropped, detached, resolved
    cancelled,  \* the flag shared by handle and task
    pc,         \* where the task is
    result,     \* what the task returned
    drained,    \* player.empty(), once the source was appended
    queue       \* of the blocking pool

vars == <<handle, cancelled, pc, result, drained, queue>>

Init ==
    /\ handle = [p \in Playbacks |-> "none"]
    /\ cancelled = [p \in Playbacks |-> FALSE]
    /\ pc = [p \in Playbacks |-> "none"]
    /\ result = [p \in Playbacks |-> "none"]
    /\ drained = [p \in Playbacks |-> FALSE]
    /\ queue = <<>>

Running(p) == pc[p] \in {"opening", "decoding", "starting", "playing", "sleeping"}

(* The task holds the output device; its source is in the player.          *)
HasDevice(p) == Running(p) /\ pc[p] # "opening"
Audible(p) == pc[p] \in {"playing", "sleeping"} /\ ~drained[p]

-----------------------------------------------------------------------------
(* The owner of the handle *)

Play(p) ==
    /\ handle[p] = "none"
    /\ handle' = [handle EXCEPT ![p] = "held"]
    /\ pc' = [pc EXCEPT ![p] = "queued"] /\ queue' = Append(queue, p)
    /\ UNCHANGED <<cancelled, result, drained>>

Drop(p) ==
    /\ handle[p] = "held"
    /\ handle' = [handle EXCEPT ![p] = "dropped"]
    /\ cancelled' = [cancelled EXCEPT ![p] = TRUE]
    /\ UNCHANGED <<pc, result, drained, queue>>

(* Mutant: drop does not ask whether the handle was detached.              *)
DetachAndCancel(p) ==
    /\ handle[p] = "held"
    /\ handle' = [handle EXCEPT ![p] = "detached"]
    /\ cancelled' = [cancelled EXCEPT ![p] = TRUE]
    /\ UNCHANGED <<pc, result, drained, queue>>

Detach(p) ==
    /\ handle[p] = "held"
    /\ handle' = [handle EXCEPT ![p] = "detached"]
    /\ UNCHANGED <<cancelled, pc, result, drained, queue>>

(* poll returns the task's result, Task if it panicked; the handle is      *)
(* dropped.                                                                *)
Resolve(p) ==
    /\ handle[p] = "held" /\ pc[p] = "done"
    /\ handle' = [handle EXCEPT ![p] = "resolved"]
    /\ cancelled' = [cancelled EXCEPT ![p] = TRUE]
    /\ UNCHANGED <<pc, result, drained, queue>>

-----------------------------------------------------------------------------
(* The task of play_with *)

Goto(p, label) == pc' = [pc EXCEPT ![p] = label] /\ UNCHANGED <<result, drained>>

Return(p, value) ==
    /\ pc' = [pc EXCEPT ![p] = "done"] /\ result' = [result EXCEPT ![p] = value]
    /\ UNCHANGED drained

(* Returns Ok if the flag is set, and goes on otherwise.                   *)
Check(p, label) == IF cancelled[p] THEN Return(p, "Ok") ELSE Goto(p, label)

(* Mutant: the flag is not looked at first.                                *)
StartUnchecked(p) ==
    /\ pc[p] = "queued" /\ Head(queue) = p
    /\ Cardinality({q \in Playbacks : Running(q)}) < PoolSize
    /\ queue' = Tail(queue) /\ Goto(p, "opening")
    /\ UNCHANGED <<handle, cancelled>>

(* A thread of the pool takes up the task, which looks at the flag.        *)
Start(p) ==
    /\ pc[p] = "queued" /\ Head(queue) = p
    /\ Cardinality({q \in Playbacks : Running(q)}) < PoolSize
    /\ queue' = Tail(queue) /\ Check(p, "opening")
    /\ UNCHANGED <<handle, cancelled>>

OpenDevice(p) ==
    /\ pc[p] = "opening"
    /\ Goto(p, "decoding") \/ Return(p, "Output")
    /\ UNCHANGED <<handle, cancelled, queue>>

(* Mutant: the flag is not looked at a second time.                        *)
DecodeUnchecked(p) ==
    /\ pc[p] = "decoding"
    /\ \/ Goto(p, "starting")
       \/ \E error \in {"Io", "Decode", "Task"} : Return(p, error)
    /\ UNCHANGED <<handle, cancelled, queue>>

(* open() and the decoder, then the flag                                   *)
Decode(p) ==
    /\ pc[p] = "decoding"
    /\ \/ Check(p, "starting")
       \/ \E error \in {"Io", "Decode", "Task"} : Return(p, error)
    /\ UNCHANGED <<handle, cancelled, queue>>

(* player.append                                                           *)
AppendSource(p) ==
    /\ pc[p] = "starting" /\ Goto(p, "playing")
    /\ UNCHANGED <<handle, cancelled, queue>>

(* Mutant: only the flag ends the loop.                                    *)
TestNothing(p) ==
    /\ pc[p] = "playing" /\ Goto(p, "sleeping")
    /\ UNCHANGED <<handle, cancelled, queue>>

(* while !player.empty(): to sleep, or to the end                          *)
TestEmpty(p) ==
    /\ pc[p] = "playing"
    /\ IF drained[p] THEN Return(p, "Ok") ELSE Goto(p, "sleeping")
    /\ UNCHANGED <<handle, cancelled, queue>>

(* Mutant: the loop goes on regardless.                                    *)
AwakeUnchecked(p) ==
    /\ pc[p] = "sleeping" /\ Goto(p, "playing")
    /\ UNCHANGED <<handle, cancelled, queue>>

Awake(p) ==
    /\ pc[p] = "sleeping" /\ Check(p, "playing")
    /\ UNCHANGED <<handle, cancelled, queue>>

(* The device has played the source to its end.                            *)
SourceEnds(p) ==
    /\ Audible(p) /\ p \notin Endless
    /\ drained' = [drained EXCEPT ![p] = TRUE]
    /\ UNCHANGED <<handle, cancelled, pc, result, queue>>

Task(p) ==
    \/ Start(p) \/ OpenDevice(p) \/ Decode(p)
    \/ AppendSource(p) \/ TestEmpty(p) \/ Awake(p)

Next ==
    \E p \in Playbacks :
        Play(p) \/ Drop(p) \/ Detach(p) \/ Resolve(p) \/ Task(p) \/ SourceEnds(p)

Spec == Init /\ [][Next]_vars

(* The pool runs its tasks, and a source that ends ends.  Nothing makes an *)
(* owner act.                                                              *)
FairSpec ==
    Spec /\ \A p \in Playbacks : WF_vars(Task(p)) /\ WF_vars(SourceEnds(p))

-----------------------------------------------------------------------------
(* Properties *)

(* "A handle dropped before the blocking pool got to us should not open    *)
(* the device and emit a stray blip": from then on the task never has the  *)
(* device.                                                                 *)
NoStrayBlip ==
    \A p \in Playbacks :
        [](handle[p] = "dropped" /\ pc[p] = "queued" => []~HasDevice(p))

(* A handle dropped while its task opens the device or decodes the source, *)
(* which takes long, is heeded as well: nothing is heard of the playback   *)
(* from then on (the second look at the flag, audio.rs:129).               *)
NoLateSound ==
    \A p \in Playbacks :
        [](handle[p] = "dropped" /\ pc[p] \in {"queued", "opening", "decoding"}
              => []~Audible(p))

(* A playback that was not dropped returns Ok only when its source has     *)
(* been played to the end: awaiting "resolves when the playback            *)
(* completes", and detach lets it "run to completion".                     *)
OkMeansPlayed ==
    \A p \in Playbacks :
        result[p] = "Ok" /\ handle[p] # "dropped" => drained[p]

(* Dropping a handle stops the playback, an endless one and one that has   *)
(* just passed a check too: the task ends and releases device and thread.  *)
DroppedFallsSilent ==
    \A p \in Playbacks : (handle[p] = "dropped" /\ Running(p)) ~> pc[p] = "done"

(* A playback comes to its end by itself, held, detached or dropped,       *)
(* unless it is endless; or it is kept waiting by as many endless ones as  *)
(* there are threads.                                                      *)
PlaybacksEnd ==
    \A p \in Playbacks \ Endless :
        (pc[p] = "queued" ~> pc[p] = "done")
        \/ <>[](Cardinality({q \in Endless : Running(q)}) = PoolSize)
=============================================================================
