--------------------------- MODULE PlaybackProofs ---------------------------
(***************************************************************************)
(* Safety of audio playback, for any number of playbacks and any pool.     *)
(***************************************************************************)
EXTENDS Playback, TLAPS

Labels == {"none", "queued", "opening", "decoding", "starting", "playing",
           "sleeping", "done"}

(* The flag is set only by a handle that was dropped or has resolved, and  *)
(* a handle resolves only after its task; so a task that sees the flag     *)
(* sees a handle that was dropped.                                         *)
FlagInv ==
    /\ handle \in [Playbacks -> {"none", "held", "dropped", "detached",
                                 "resolved"}]
    /\ cancelled \in [Playbacks -> BOOLEAN]
    /\ drained \in [Playbacks -> BOOLEAN]
    /\ pc \in [Playbacks -> Labels]
    /\ result \in [Playbacks -> {"none", "Ok", "Output", "Io", "Decode", "Task"}]
    /\ \A p \in Playbacks :
          /\ cancelled[p] <=> handle[p] \in {"dropped", "resolved"}
          /\ handle[p] = "none" => pc[p] = "none"
          /\ handle[p] = "resolved" => pc[p] = "done"
          /\ result[p] = "none" <=> pc[p] # "done"

(* What a step of a task does: it alone moves, and ends with Ok only if    *)
(* the flag is set or the source has been played.                          *)
TaskMoves(p) ==
    /\ UNCHANGED <<handle, cancelled, drained>>
    /\ pc[p] \notin {"none", "done"}
    /\ \E label \in Labels \ {"none", "queued"} :
          pc' = [pc EXCEPT ![p] = label]
    /\ \/ pc'[p] # "done" /\ UNCHANGED result
       \/ /\ pc'[p] = "done"
          /\ \E value \in {"Ok", "Output", "Io", "Decode", "Task"} :
                /\ result' = [result EXCEPT ![p] = value]
                /\ value = "Ok" => cancelled[p] \/ drained[p]
    /\ pc[p] \in {"queued", "decoding"} /\ cancelled[p] => pc'[p] = "done"
    /\ pc[p] = "opening" => pc'[p] \in {"decoding", "done"}

(* Every step of a task is one of TaskMoves.                               *)
LEMMA TaskSteps ==
    ASSUME FlagInv, NEW p \in Playbacks, Task(p)
    PROVE  TaskMoves(p)
<1> USE DEF FlagInv, TaskMoves, Labels, Goto, Return, Check
<1>1. CASE Start(p)
  BY <1>1 DEF Start
<1>2. CASE OpenDevice(p)
  BY <1>2 DEF OpenDevice
<1>3. CASE Decode(p)
  BY <1>3 DEF Decode
<1>4. CASE AppendSource(p)
  BY <1>4 DEF AppendSource
<1>5. CASE TestEmpty(p)
  BY <1>5 DEF TestEmpty
<1>6. CASE Awake(p)
  BY <1>6 DEF Awake
<1>7. QED
  BY <1>1, <1>2, <1>3, <1>4, <1>5, <1>6 DEF Task

(* FlagInv is an invariant.                                                *)
LEMMA FlagAlways == Spec => []FlagInv
<1>1. Init => FlagInv
  BY DEF Init, FlagInv, Labels
<1>2. FlagInv /\ [Next]_vars => FlagInv'
  <2> SUFFICES ASSUME FlagInv, [Next]_vars PROVE FlagInv'
    OBVIOUS
  <2>1. CASE UNCHANGED vars
    BY <2>1 DEF vars, FlagInv
  <2>2. ASSUME NEW p \in Playbacks, Play(p) PROVE FlagInv'
    BY <2>2 DEF Play, FlagInv, Labels
  <2>3. ASSUME NEW p \in Playbacks, Drop(p) PROVE FlagInv'
    BY <2>3 DEF Drop, FlagInv
  <2>4. ASSUME NEW p \in Playbacks, Detach(p) PROVE FlagInv'
    BY <2>4 DEF Detach, FlagInv
  <2>5. ASSUME NEW p \in Playbacks, Resolve(p) PROVE FlagInv'
    BY <2>5 DEF Resolve, FlagInv
  <2>6. ASSUME NEW p \in Playbacks, SourceEnds(p) PROVE FlagInv'
    BY <2>6 DEF SourceEnds, FlagInv
  <2>7. ASSUME NEW p \in Playbacks, Task(p) PROVE FlagInv'
    BY <2>7, TaskSteps DEF TaskMoves, FlagInv
  <2>8. QED
    BY <2>1, <2>2, <2>3, <2>4, <2>5, <2>6, <2>7 DEF Next
<1>3. QED
  BY <1>1, <1>2, PTL DEF Spec

(* A playback that was not dropped returns Ok only when its source has     *)
(* been played to the end (the three checks of play_with, audio.rs:112-    *)
(* 141, and what detach and the end of an await do to the flag).           *)
THEOREM OkIsPlayed == Spec => []OkMeansPlayed
<1>1. Init => OkMeansPlayed
  BY DEF Init, OkMeansPlayed
<1>2. FlagInv /\ OkMeansPlayed /\ [Next]_vars => OkMeansPlayed'
  <2> SUFFICES ASSUME FlagInv, OkMeansPlayed, [Next]_vars
               PROVE  OkMeansPlayed'
    OBVIOUS
  <2> USE DEF FlagInv, OkMeansPlayed
  <2>1. CASE UNCHANGED vars
    BY <2>1 DEF vars
  <2>2. ASSUME NEW p \in Playbacks,
               Play(p) \/ Drop(p) \/ Detach(p) \/ Resolve(p) \/ SourceEnds(p)
        PROVE  OkMeansPlayed'
    BY <2>2 DEF Play, Drop, Detach, Resolve, SourceEnds
  <2>3. ASSUME NEW p \in Playbacks, Task(p) PROVE OkMeansPlayed'
    BY <2>3, TaskSteps DEF TaskMoves
  <2>4. QED
    BY <2>1, <2>2, <2>3 DEF Next
<1>3. QED
  BY <1>1, <1>2, FlagAlways, PTL DEF Spec

(* A playback whose handle was dropped before the pool took it up never    *)
(* gets the device: the first check of play_with returns (audio.rs:110-    *)
(* 114).                                                                   *)
THEOREM DroppedInTime == Spec => NoStrayBlip
<1> SUFFICES ASSUME NEW p \in Playbacks
             PROVE  Spec => [](handle[p] = "dropped" /\ pc[p] = "queued"
                                  => []~HasDevice(p))
  BY DEF NoStrayBlip
<1> DEFINE Spent == /\ handle[p] = "dropped" /\ cancelled[p]
                    /\ pc[p] \in {"queued", "done"}
<1>1. FlagInv /\ handle[p] = "dropped" /\ pc[p] = "queued" => Spent
  BY DEF FlagInv
<1>2. Spent => ~HasDevice(p)
  BY DEF HasDevice, Running
<1>3. FlagInv /\ Spent /\ [Next]_vars => Spent'
  <2> SUFFICES ASSUME FlagInv, Spent, [Next]_vars PROVE Spent'
    OBVIOUS
  <2> USE DEF FlagInv
  <2>1. CASE UNCHANGED vars
    BY <2>1 DEF vars
  <2>2. ASSUME NEW q \in Playbacks,
               Play(q) \/ Drop(q) \/ Detach(q) \/ Resolve(q) \/ SourceEnds(q)
        PROVE  Spent'
    BY <2>2 DEF Play, Drop, Detach, Resolve, SourceEnds
  <2>3. ASSUME NEW q \in Playbacks, Task(q) PROVE Spent'
    BY <2>3, TaskSteps DEF TaskMoves
  <2>4. QED
    BY <2>1, <2>2, <2>3 DEF Next
<1> HIDE DEF Spent
<1>4. QED
  BY <1>1, <1>2, <1>3, FlagAlways, PTL DEF Spec

(* Nothing is heard of a playback whose handle was dropped before its task *)
(* looked at the flag for the second time, after opening the device and    *)
(* decoding (audio.rs:129-131).                                            *)
THEOREM DroppedBeforeSound == Spec => NoLateSound
<1> SUFFICES ASSUME NEW p \in Playbacks
             PROVE  Spec => [](handle[p] = "dropped"
                                /\ pc[p] \in {"queued", "opening", "decoding"}
                                  => []~Audible(p))
  BY DEF NoLateSound
<1> DEFINE Spent == /\ handle[p] = "dropped" /\ cancelled[p]
                    /\ pc[p] \in {"queued", "opening", "decoding", "done"}
<1>1. FlagInv /\ handle[p] = "dropped"
         /\ pc[p] \in {"queued", "opening", "decoding"} => Spent
  BY DEF FlagInv
<1>2. Spent => ~Audible(p)
  BY DEF Audible
<1>3. FlagInv /\ Spent /\ [Next]_vars => Spent'
  <2> SUFFICES ASSUME FlagInv, Spent, [Next]_vars PROVE Spent'
    OBVIOUS
  <2> USE DEF FlagInv
  <2>1. CASE UNCHANGED vars
    BY <2>1 DEF vars
  <2>2. ASSUME NEW q \in Playbacks,
               Play(q) \/ Drop(q) \/ Detach(q) \/ Resolve(q) \/ SourceEnds(q)
        PROVE  Spent'
    BY <2>2 DEF Play, Drop, Detach, Resolve, SourceEnds
  <2>3. ASSUME NEW q \in Playbacks, Task(q) PROVE Spent'
    BY <2>3, TaskSteps DEF TaskMoves
  <2>4. QED
    BY <2>1, <2>2, <2>3 DEF Next
<1> HIDE DEF Spent
<1>4. QED
  BY <1>1, <1>2, <1>3, FlagAlways, PTL DEF Spec
=============================================================================
