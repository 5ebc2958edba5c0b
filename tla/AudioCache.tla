----------------------------- MODULE AudioCache -----------------------------
(***************************************************************************)
(* The disk cache for achievement audio (audio_cache.rs), used by tasks of *)
(* one process on one directory.  An action is the code up to the next     *)
(* await, or an operation of the blocking pool, where tokio runs those on  *)
(* files.  Calls fail, their futures are dropped (the on-connect hook,     *)
(* where sync is meant to run, has a timeout), and the process crashes and *)
(* is restarted on the same directory.  Audio is known by its hash, what a *)
(* file holds by whether it is whole, and the provider by the outcomes     *)
(* that sync tells apart.                                                  *)
(***************************************************************************)
EXTENDS Naturals

CONSTANTS
    Tasks,       \* tasks of the application that use the cache
    Ids,         \* achievements
    Hashes,      \* hashes of audio data
    NoHash,      \* the achievement has no audio
    MaxCalls,    \* bound: calls of ensure and sync
    MaxFaults,   \* bound: failing operations and dropped futures
    MaxUpdates,  \* bound: changes of the audio on the server
    MaxCrashes   \* bound: crashes of the process

ASSUME CacheAssumption ==
    /\ NoHash \notin Hashes
    /\ {MaxCalls, MaxFaults, MaxUpdates, MaxCrashes} \subseteq Nat

VARIABLES
    files,    \* the directory: contents by name
    counter,  \* TEMP_COUNTER
    server,   \* the audio the server has for every achievement
    tasks,    \* per task: the call it is in
    late,     \* operations of dropped futures still in the blocking pool
    spent     \* how much of every bound is used up

vars == <<files, counter, server, tasks, late, spent>>

-----------------------------------------------------------------------------
(* Records and files.                                                      *)

Record == [id : Ids, hash : Hashes \cup {NoHash}]

Name == [ext : {"mp3"}, id : Ids, hash : Hashes]
           \cup [ext : {"download"}, id : Ids, n : Nat]

(* A file is being written by a task, whole, or garbled by two of them.    *)
Content == [by : Tasks, state : {"open", "whole", "garbled"}]

(* path_for returns Some.  Mutant: always.                                 *)
HasAudioAlways(record) == TRUE
HasAudio(record) == record.hash # NoHash

PathFor(record) == [ext |-> "mp3", id |-> record.id, hash |-> record.hash]

(* Mutant: without the unique suffix.                                      *)
TempPathById(id, n) == [ext |-> "download", id |-> id, n |-> 0]
TempPath(id, n) == [ext |-> "download", id |-> id, n |-> n]

Expected(records) == {PathFor(r) : r \in {q \in records : HasAudio(q)}}

(* The entries sync removes: audio no record refers to, and leftovers.     *)
(* Mutant: leftovers are not looked for.                                   *)
PrunableAudio(name, records) ==
    name.ext = "mp3" /\ name \notin Expected(records)

Prunable(name, records) ==
    \/ name.ext = "mp3" /\ name \notin Expected(records)
    \/ name.ext = "download"

Stored(name, content) ==
    [f \in DOMAIN files \cup {name} |-> IF f = name THEN content ELSE files[f]]

Removed(name) == [f \in DOMAIN files \ {name} |-> files[f]]

Renamed(from, to) ==
    [f \in (DOMAIN files \ {from}) \cup {to} |->
        IF f = to THEN files[from] ELSE files[f]]

(* What the blocking pool is given to do, on behalf of a task.             *)
Operation == [do : {"remove", "create", "rename"}, by : Tasks,
              name : Name, to : Name]

(* The directory after an operation.  A file that is gone already is       *)
(* neither removed nor renamed, and a new one is open until it is filled.  *)
Performed(op) ==
    CASE op.do = "remove" -> Removed(op.name)
      [] op.do = "create" -> Stored(op.name, [by |-> op.by, state |-> "open"])
      [] op.do = "rename" -> IF op.name \in DOMAIN files
                             THEN Renamed(op.name, op.to) ELSE files

-----------------------------------------------------------------------------
(* Calls.                                                                  *)

(* kept (the entries whose removal failed) and quiet (no operation of a    *)
(* dropped future was outstanding when the call began) are history.        *)
Task == [pc : {"idle", "prune", "remove", "next", "lookup", "retrieve",
               "create", "write", "rename"},
         job : {"none", "ensure", "sync"}, records : SUBSET Record,
         todo : SUBSET Record, unseen : SUBSET Name,
         target : Name \cup {NoHash}, record : Record \cup {NoHash},
         n : Nat, skipped : SUBSET Ids, kept : SUBSET Name, quiet : BOOLEAN,
         result : {"none", "ok", "error"}]

Idle == [pc |-> "idle", job |-> "none", records |-> {}, todo |-> {},
         unseen |-> {}, target |-> NoHash, record |-> NoHash, n |-> 0,
         skipped |-> {}, kept |-> {}, quiet |-> FALSE, result |-> "none"]

Bounds == [call |-> MaxCalls, fault |-> MaxFaults, update |-> MaxUpdates,
           crash |-> MaxCrashes]

Spend(bound) == /\ spent[bound] < Bounds[bound]
                /\ spent' = [spent EXCEPT ![bound] = @ + 1]

At(t, pc) == tasks[t].pc = pc

Temp(t) == TempPath(tasks[t].record.id, tasks[t].n)

(* The operation on the directory that a task awaits.                      *)
InPool(t) == tasks[t].pc \in {"remove", "create", "rename"}

Awaited(t) ==
    LET name == IF At(t, "remove") THEN tasks[t].target ELSE Temp(t)
    IN  [do |-> tasks[t].pc, by |-> t, name |-> name,
         to |-> IF At(t, "rename") THEN PathFor(tasks[t].record) ELSE name]

Become(t, task) == tasks' = [tasks EXCEPT ![t] = task]

Goto(t, pc) == Become(t, [tasks[t] EXCEPT !.pc = pc])

Return(t, result) == Become(t, [Idle EXCEPT !.result = result])

(* ensure_inner is through with a record.                                  *)
Done(t) == IF tasks[t].job = "sync" THEN Goto(t, "next") ELSE Return(t, "ok")

(* ensure_inner was refused a record by an error that is not fatal.        *)
Skip(t) == IF tasks[t].job = "sync"
           THEN Become(t, [tasks[t] EXCEPT !.pc = "next",
                              !.skipped = @ \cup {tasks[t].record.id}])
           ELSE Return(t, "error")

-----------------------------------------------------------------------------
(* ensure and sync, with records the server has just sent.                 *)

Ensure(t) ==
    /\ At(t, "idle")
    /\ Spend("call")
    /\ \E id \in Ids :
          LET record == [id |-> id, hash |-> server[id]] IN
          IF HasAudio(record)
          THEN Become(t, [Idle EXCEPT !.pc = "lookup", !.job = "ensure",
                                      !.records = {record}, !.record = record,
                                      !.quiet = late = {}])
          ELSE Return(t, "ok")
    /\ UNCHANGED <<files, counter, server, late>>

Sync(t) ==
    /\ At(t, "idle")
    /\ Spend("call")
    /\ LET records == {[id |-> id, hash |-> server[id]] : id \in Ids} IN
       Become(t, [Idle EXCEPT !.pc = "prune", !.job = "sync",
                              !.records = records, !.todo = records,
                              !.unseen = DOMAIN files,
                              !.quiet = late = {}])
    /\ UNCHANGED <<files, counter, server, late>>

(* One directory entry; one that appears during the walk may be returned   *)
(* too.                                                                    *)
Prune(t) ==
    /\ At(t, "prune")
    /\ \E name \in tasks[t].unseen \cup DOMAIN files :
          Become(t, IF Prunable(name, tasks[t].records)
                    THEN [tasks[t] EXCEPT !.unseen = @ \ {name},
                                          !.pc = "remove", !.target = name]
                    ELSE [tasks[t] EXCEPT !.unseen = @ \ {name}])
    /\ UNCHANGED <<files, counter, server, late, spent>>

(* A failed removal is ignored.                                            *)
Remove(t) ==
    /\ At(t, "remove")
    /\ \/ /\ files' = Performed(Awaited(t))
          /\ Become(t, [tasks[t] EXCEPT !.pc = "prune", !.target = NoHash])
          /\ UNCHANGED spent
       \/ /\ Spend("fault")
          /\ Become(t, [tasks[t] EXCEPT !.pc = "prune", !.target = NoHash,
                                        !.kept = @ \cup {tasks[t].target}])
          /\ UNCHANGED files
    /\ UNCHANGED <<counter, server, late>>

PruneEnds(t) ==
    /\ At(t, "prune")
    /\ tasks[t].unseen = {}
    /\ Goto(t, "next")
    /\ UNCHANGED <<files, counter, server, late, spent>>

(* The loop over the records; the order of the list does not matter.       *)
NextRecord(t) ==
    /\ At(t, "next")
    /\ \/ /\ tasks[t].todo = {}
          /\ Return(t, "ok")
       \/ \E record \in tasks[t].todo :
             Become(t, [tasks[t] EXCEPT
                 !.todo = @ \ {record}, !.record = record,
                 !.pc = IF HasAudio(record) THEN "lookup" ELSE "next"])
    /\ UNCHANGED <<files, counter, server, late, spent>>

Lookup(t) ==
    /\ At(t, "lookup")
    /\ IF PathFor(tasks[t].record) \in DOMAIN files THEN Done(t)
                                                    ELSE Goto(t, "retrieve")
    /\ UNCHANGED <<files, counter, server, late, spent>>

(* The provider asks for an achievement, not for a hash: any audio the     *)
(* server has by now will do.                                              *)
Retrieve(t) ==
    /\ At(t, "retrieve")
    /\ server[tasks[t].record.id] # NoHash
    /\ counter' = counter + 1
    /\ Become(t, [tasks[t] EXCEPT !.pc = "create", !.n = counter])
    /\ UNCHANGED <<files, server, late, spent>>

Refuse(t) ==
    /\ At(t, "retrieve")
    /\ IF server[tasks[t].record.id] = NoHash THEN UNCHANGED spent
                                              ELSE Spend("fault")
    /\ Skip(t)
    /\ UNCHANGED <<files, counter, server, late>>

(* fs::write opens the temporary file.                                     *)
Create(t) ==
    /\ At(t, "create")
    /\ files' = Performed(Awaited(t))
    /\ Goto(t, "write")
    /\ UNCHANGED <<counter, server, late, spent>>

(* fs::write has filled the file.  One that was removed meanwhile stays    *)
(* removed; one another task has written to is garbled.                    *)
WriteEnds(t) ==
    /\ At(t, "write")
    /\ files' = IF Temp(t) \notin DOMAIN files THEN files
                ELSE LET mine == /\ files[Temp(t)].by = t
                                 /\ files[Temp(t)].state = "open"
                     IN  Stored(Temp(t), [files[Temp(t)] EXCEPT
                             !.state = IF mine THEN "whole" ELSE "garbled"])
    /\ Goto(t, "rename")
    /\ UNCHANGED <<counter, server, late, spent>>

Rename(t) ==
    /\ At(t, "rename")
    /\ files' = Performed(Awaited(t))
    /\ IF Temp(t) \in DOMAIN files THEN Done(t) ELSE Return(t, "error")
    /\ UNCHANGED <<counter, server, late, spent>>

-----------------------------------------------------------------------------
(* What goes wrong around them.                                            *)

(* Any other error propagates; or the future is dropped, and an operation  *)
(* it awaited may still take effect.  (A file that is open already may be  *)
(* filled or not, for nobody reads it any more.)                           *)
Abandon(t) ==
    /\ ~At(t, "idle")
    /\ Spend("fault")
    /\ \/ UNCHANGED late
       \/ InPool(t) /\ late' = late \cup {Awaited(t)}
    /\ Return(t, "error")
    /\ UNCHANGED <<files, counter, server>>

LateOperation ==
    /\ \E op \in late :
          /\ late' = late \ {op}
          /\ files' = Performed(op)
    /\ UNCHANGED <<counter, server, tasks, spent>>

(* Memory is lost, the directory is not.                                   *)
Crash ==
    /\ Spend("crash")
    /\ tasks' = [t \in Tasks |-> Idle]
    /\ counter' = 0
    /\ late' = {}
    /\ UNCHANGED <<files, server>>

(* The audio of an achievement changes, appears or goes (external).        *)
ServerUpdates ==
    /\ Spend("update")
    /\ \E id \in Ids, hash \in Hashes \cup {NoHash} :
          server' = [server EXCEPT ![id] = hash]
    /\ UNCHANGED <<files, counter, tasks, late>>

(* The application makes no more calls.                                    *)
Finished ==
    /\ spent.call = MaxCalls
    /\ \A t \in Tasks : At(t, "idle")
    /\ UNCHANGED vars

-----------------------------------------------------------------------------

Init ==
    /\ files = [name \in {} |-> NoHash]
    /\ counter = 0
    /\ server \in [Ids -> Hashes \cup {NoHash}]
    /\ tasks = [t \in Tasks |-> Idle]
    /\ late = {}
    /\ spent = [bound \in DOMAIN Bounds |-> 0]

TaskStep(t) ==
    \/ Ensure(t) \/ Sync(t)
    \/ Prune(t) \/ Remove(t) \/ PruneEnds(t) \/ NextRecord(t)
    \/ Lookup(t) \/ Retrieve(t) \/ Refuse(t)
    \/ Create(t) \/ WriteEnds(t) \/ Rename(t)
    \/ Abandon(t)

Next ==
    \/ \E t \in Tasks : TaskStep(t)
    \/ LateOperation
    \/ Crash
    \/ ServerUpdates
    \/ Finished

Spec == Init /\ [][Next]_vars

TypeOK ==
    /\ DOMAIN files \subseteq Name
    /\ \A name \in DOMAIN files : files[name] \in Content
    /\ counter \in Nat
    /\ server \in [Ids -> Hashes \cup {NoHash}]
    /\ tasks \in [Tasks -> Task]
    /\ late \subseteq Operation
    /\ spent \in [DOMAIN Bounds -> Nat]

(* A file under a final name is the whole result of one download: never    *)
(* truncated by a crash, a failure or a dropped future, and never garbled  *)
(* by concurrent downloads (audio_cache.rs:121-124).  The existence check  *)
(* of ensure_inner would keep a bad one forever.                           *)
CachedFilesWhole ==
    \A name \in DOMAIN files :
        name.ext = "mp3" => files[name].state = "whole"

(* When a call returns Ok to the only task that uses the cache, the files  *)
(* of all its records are there but for the ids it reports as skipped, and *)
(* after a sync no other file is, whatever earlier calls, failures and     *)
(* crashes have left, but for the ones this very sync failed to remove     *)
(* (audio_cache.rs:88-91, 138-144).  The call must have begun with no      *)
(* operation of an earlier, dropped call outstanding.                      *)
SyncSettles ==
    [][\A t \in Tasks :
          /\ Tasks = {t} /\ tasks[t].job # "none" /\ tasks[t].quiet
          /\ tasks'[t].result = "ok"
          => /\ \A r \in tasks[t].records :
                   \/ r.hash = NoHash \/ r.id \in tasks[t].skipped
                   \/ PathFor(r) \in DOMAIN files'
             /\ tasks[t].job = "sync" =>
                   DOMAIN files' \subseteq
                      Expected(tasks[t].records) \cup tasks[t].kept]_vars
=============================================================================
