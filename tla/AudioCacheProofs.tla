-------------------------- MODULE AudioCacheProofs --------------------------
(***************************************************************************)
(* Proofs about AudioCache: type correctness, that a file under a final    *)
(* name is whole, and what a sync leaves behind, for any number of tasks,  *)
(* achievements, calls, faults and crashes.                                *)
(***************************************************************************)
EXTENDS AudioCache, TLAPS

(* TypeOK is not inductive: ensure_inner makes a path of the record it     *)
(* holds, which must be one with audio, and sync removes what it found.    *)
Working(t) == tasks[t].pc \in {"lookup", "retrieve", "create", "write", "rename"}

Held ==
    \A t \in Tasks :
        /\ Working(t) => tasks[t].record \in [id : Ids, hash : Hashes]
        /\ At(t, "remove") => tasks[t].target \in Name

TypeInv == TypeOK /\ Held

(* A temporary file belongs to the one download that took its number: to a *)
(* task, or to the operation its dropped future left behind.               *)
Downloading(t) == tasks[t].pc \in {"create", "write", "rename"}

NumbersUnique ==
    /\ \A t \in Tasks : Downloading(t) => tasks[t].n < counter
    /\ \A t, u \in Tasks :
          Downloading(t) /\ Downloading(u) /\ t # u => tasks[t].n # tasks[u].n

TempFiles ==
    \A t \in Tasks :
        /\ At(t, "write") /\ Temp(t) \in DOMAIN files
              => files[Temp(t)].by = t /\ files[Temp(t)].state = "open"
        /\ At(t, "rename") /\ Temp(t) \in DOMAIN files
              => files[Temp(t)].state = "whole"

OfDownload(op) == op.do \in {"create", "rename"}

LateOperations ==
    /\ \A op \in late : OfDownload(op) =>
          /\ op.name.ext = "download" /\ op.name.n < counter
          /\ \A t \in Tasks : Downloading(t) => tasks[t].n # op.name.n
          /\ op.do = "rename" =>
                /\ op.to.ext = "mp3"
                /\ op.name \in DOMAIN files => files[op.name].state = "whole"
    /\ \A op, other \in late :
          OfDownload(op) /\ OfDownload(other) /\ op # other
             => op.name.n # other.name.n

WholeInv == NumbersUnique /\ TempFiles /\ LateOperations /\ CachedFilesWhole

-----------------------------------------------------------------------------
(* Names and directories.                                                  *)

(* What path_for and the temporary path look like.                         *)
LEMMA Names ==
    /\ \A r \in [id : Ids, hash : Hashes] :
          PathFor(r) \in Name /\ PathFor(r).ext = "mp3"
    /\ \A id \in Ids, n \in Nat :
          /\ TempPath(id, n) \in Name
          /\ TempPath(id, n).ext = "download"
          /\ TempPath(id, n).n = n
BY DEF Name, PathFor, TempPath

(* A directory is typed if its names and contents are.                     *)
FilesTyped(f) ==
    DOMAIN f \subseteq Name /\ \A name \in DOMAIN f : f[name] \in Content

-----------------------------------------------------------------------------
(* Type correctness.                                                       *)

(* Returning from a call leaves an idle, well-typed task.                  *)
LEMMA IdleTask ==
    \A result \in {"none", "ok", "error"} :
        /\ [Idle EXCEPT !.result = result] \in Task
        /\ [Idle EXCEPT !.result = result].pc = "idle"
BY DEF Idle, Task

(* A well-typed task that holds a record, or an entry to remove, wherever  *)
(* it needs one.                                                           *)
GoodTask(task) ==
    /\ task \in Task
    /\ task.pc \in {"lookup", "retrieve", "create", "write", "rename"}
          => task.record \in [id : Ids, hash : Hashes]
    /\ task.pc = "remove" => task.target \in Name

(* TypeInv is an invariant: the empty directory of a first start is well   *)
(* typed, and every step of a task or of its environment keeps the types.  *)
LEMMA TypeInvAlways == Spec => []TypeInv
(* The records of a sync with HasAudio are those ensure_inner works on.    *)
<1>AudioRecords.
      \A r \in Record : HasAudio(r) => r \in [id : Ids, hash : Hashes]
  BY DEF Record, HasAudio

(* Every operation keeps a directory typed.                                *)
<1>FileOperations.
      ASSUME FilesTyped(files)
      PROVE  /\ \A name \in Name, c \in Content : FilesTyped(Stored(name, c))
             /\ \A op \in Operation : FilesTyped(Performed(op))
  <2> USE <1>FileOperations
  <2>1. \A name \in Name, c \in Content : FilesTyped(Stored(name, c))
    BY DEF FilesTyped, Stored
  <2>2. \A name : FilesTyped(Removed(name))
    BY DEF FilesTyped, Removed
  <2>3. \A from \in DOMAIN files, to \in Name : FilesTyped(Renamed(from, to))
    BY DEF FilesTyped, Renamed
  <2>4. ASSUME NEW op \in Operation PROVE FilesTyped(Performed(op))
    <3>1. /\ op.name \in Name /\ op.to \in Name /\ op.by \in Tasks
          /\ op.do \in {"remove", "create", "rename"}
      BY DEF Operation
    <3>2. [by |-> op.by, state |-> "open"] \in Content BY <3>1 DEF Content
    <3> QED BY <2>1, <2>2, <2>3, <3>1, <3>2 DEF Performed
  <2> QED BY <2>1, <2>4

(* Replacing one task by a good one keeps all of them good.                *)
<1>BecomeGood.
      ASSUME TypeInv, NEW t \in Tasks, NEW task, GoodTask(task), Become(t, task)
      PROVE  tasks' \in [Tasks -> Task] /\ Held'
  BY <1>BecomeGood DEF TypeInv, TypeOK, Held, GoodTask, Become, Working, At

(* The tasks a call of ensure or sync returns to its caller with.          *)
<1>ReturnGood. ASSUME TypeInv, NEW t \in Tasks,
                      \/ Return(t, "ok") \/ Return(t, "error")
               PROVE  tasks' \in [Tasks -> Task] /\ Held'
  <2> USE <1>ReturnGood
  <2>1. \A result \in {"ok", "error"} : GoodTask([Idle EXCEPT !.result = result])
    BY IdleTask DEF GoodTask
  <2> QED BY <2>1, <1>BecomeGood DEF Return

(* Going on to an await that needs no more than is there.                  *)
<1>GotoGood. ASSUME TypeInv, NEW t \in Tasks, NEW pc, Goto(t, pc),
                    \/ pc = "next"
                    \/ /\ pc \in {"retrieve", "write", "rename"}
                       /\ tasks[t].pc \in {"lookup", "create", "write"}
             PROVE  tasks' \in [Tasks -> Task] /\ Held'
  <2> USE <1>GotoGood
  <2>1. tasks[t] \in Task BY DEF TypeInv, TypeOK
  <2>2. GoodTask([tasks[t] EXCEPT !.pc = pc])
    BY <2>1 DEF GoodTask, TypeInv, Held, Working, Task
  <2> QED BY <2>2, <1>BecomeGood DEF Goto

(* ensure_inner is through with a record, or was refused it.               *)
<1>RecordDoneGood. ASSUME TypeInv, NEW t \in Tasks,
                          Done(t) \/ (At(t, "retrieve") /\ Skip(t))
                   PROVE  tasks' \in [Tasks -> Task] /\ Held'
  <2> USE <1>RecordDoneGood
  <2>1. CASE Done(t)
    BY <2>1, <1>ReturnGood, <1>GotoGood DEF Done
  <2>2. CASE At(t, "retrieve") /\ Skip(t)
    <3>1. tasks[t] \in Task /\ tasks[t].record.id \in Ids
      BY <2>2 DEF TypeInv, TypeOK, Held, Working, At
    <3>2. GoodTask([tasks[t] EXCEPT !.pc = "next",
                        !.skipped = @ \cup {tasks[t].record.id}])
      BY <3>1 DEF GoodTask, Task
    <3> QED BY <2>2, <3>2, <1>BecomeGood, <1>ReturnGood DEF Skip
  <2> QED BY <2>1, <2>2

(* Using up a unit of a bound.                                             *)
<1>SpendTyped. ASSUME TypeInv, NEW bound, Spend(bound) \/ UNCHANGED spent
               PROVE  spent' \in [DOMAIN Bounds -> Nat]
  BY <1>SpendTyped DEF TypeInv, TypeOK, Spend

(* Starting calls, and the part of sync that prunes.                       *)
<1>CallsTyped.
      ASSUME TypeInv, NEW t \in Tasks,
             \/ Ensure(t) \/ Sync(t) \/ Prune(t) \/ Remove(t)
             \/ PruneEnds(t) \/ NextRecord(t)
      PROVE  TypeInv'
  <2> USE <1>CallsTyped
  <2> DEFINE RecordOf(id) == [id |-> id, hash |-> server[id]]
  <2>1. /\ DOMAIN files \subseteq Name /\ FilesTyped(files)
        /\ server \in [Ids -> Hashes \cup {NoHash}]
        /\ tasks[t] \in Task
        /\ \A id \in Ids : RecordOf(id) \in Record
    BY DEF TypeInv, TypeOK, FilesTyped, Record
  <2>i. Idle \in Task BY DEF Idle, Task
  <2>2. CASE Ensure(t)
    <3> DEFINE Begun(record) ==
                  [Idle EXCEPT !.pc = "lookup", !.job = "ensure",
                               !.records = {record}, !.record = record,
                               !.quiet = late = {}]
    <3>1. PICK id \in Ids : IF HasAudio(RecordOf(id))
                            THEN Become(t, Begun(RecordOf(id)))
                            ELSE Return(t, "ok")
      BY <2>2 DEF Ensure
    <3>2. ASSUME NEW record \in Record, HasAudio(record)
          PROVE  GoodTask(Begun(record))
      BY <3>2, <1>AudioRecords DEF GoodTask, Idle, Task
    <3> HIDE DEF Begun
    <3>3. tasks' \in [Tasks -> Task] /\ Held'
      BY <2>1, <3>1, <3>2, <1>BecomeGood, <1>ReturnGood
    <3>4. UNCHANGED <<files, counter, server, late>> BY <2>2 DEF Ensure
    <3>5. spent' \in [DOMAIN Bounds -> Nat] BY <2>2, <1>SpendTyped DEF Ensure
    <3> QED BY <3>3, <3>4, <3>5 DEF TypeInv, TypeOK
  <2>3. CASE Sync(t)
    <3> DEFINE records == {RecordOf(id) : id \in Ids}
    <3>1. records \subseteq Record BY <2>1
    <3>2. GoodTask([Idle EXCEPT !.pc = "prune", !.job = "sync",
                                !.records = records, !.todo = records,
                                !.unseen = DOMAIN files,
                                !.quiet = late = {}])
      <4> HIDE DEF records
      <4>1. ASSUME NEW unseen \in SUBSET Name, NEW quiet \in BOOLEAN
            PROVE  GoodTask([Idle EXCEPT !.pc = "prune", !.job = "sync",
                                !.records = records, !.todo = records,
                                !.unseen = unseen, !.quiet = quiet])
        BY <3>1 DEF GoodTask, Idle, Task
      <4>2. (late = {}) \in BOOLEAN OBVIOUS
      <4> QED BY <2>1, <4>1, <4>2
    <3>3. tasks' \in [Tasks -> Task] /\ Held'
      BY <2>3, <3>2, <1>BecomeGood DEF Sync
    <3>4. UNCHANGED <<files, counter, server, late>> BY <2>3 DEF Sync
    <3>5. spent' \in [DOMAIN Bounds -> Nat] BY <2>3, <1>SpendTyped DEF Sync
    <3> QED BY <3>3, <3>4, <3>5 DEF TypeInv, TypeOK
  <2>4. CASE Prune(t)
    <3> DEFINE Seen(name) ==
                  IF Prunable(name, tasks[t].records)
                  THEN [tasks[t] EXCEPT !.unseen = @ \ {name},
                                        !.pc = "remove", !.target = name]
                  ELSE [tasks[t] EXCEPT !.unseen = @ \ {name}]
    <3>1. PICK name \in tasks[t].unseen \cup DOMAIN files : Become(t, Seen(name))
      BY <2>4 DEF Prune
    <3>2. name \in Name BY <2>1 DEF Task
    <3>3. GoodTask(Seen(name))
      BY <2>1, <2>4, <3>2 DEF GoodTask, Task, Prune, At
    <3> HIDE DEF Seen
    <3>4. tasks' \in [Tasks -> Task] /\ Held' BY <3>1, <3>3, <1>BecomeGood
    <3> QED BY <2>4, <3>4 DEF Prune, TypeInv, TypeOK
  <2>r. CASE Remove(t)
    <3>1. tasks[t].target \in Name /\ tasks[t].pc = "remove"
      BY <2>r DEF Remove, At, TypeInv, Held
    <3>2. /\ GoodTask([tasks[t] EXCEPT !.pc = "prune", !.target = NoHash])
          /\ GoodTask([tasks[t] EXCEPT !.pc = "prune", !.target = NoHash,
                                       !.kept = @ \cup {tasks[t].target}])
      BY <2>1, <3>1 DEF GoodTask, Task
    <3>3. tasks' \in [Tasks -> Task] /\ Held'
      BY <2>r, <3>2, <1>BecomeGood DEF Remove
    <3>4. Awaited(t) \in Operation BY <3>1 DEF Awaited, Operation, At
    <3>5. FilesTyped(files')
      BY <2>1, <2>r, <3>4, <1>FileOperations DEF Remove
    <3>6. spent' \in [DOMAIN Bounds -> Nat] BY <2>r, <1>SpendTyped DEF Remove
    <3> QED BY <2>r, <3>3, <3>5, <3>6 DEF Remove, TypeInv, TypeOK, FilesTyped
  <2>5. CASE PruneEnds(t)
    BY <2>5, <1>GotoGood DEF PruneEnds, TypeInv, TypeOK
  <2>6. CASE NextRecord(t)
    <3>1. UNCHANGED <<files, counter, server, late, spent>>
      BY <2>6 DEF NextRecord
    <3>2. CASE Return(t, "ok") BY <3>1, <3>2, <1>ReturnGood DEF TypeInv, TypeOK
    <3>3. CASE \E record \in tasks[t].todo :
                  Become(t, [tasks[t] EXCEPT
                      !.todo = @ \ {record}, !.record = record,
                      !.pc = IF HasAudio(record) THEN "lookup" ELSE "next"])
      <4>1. PICK record \in tasks[t].todo :
               Become(t, [tasks[t] EXCEPT
                   !.todo = @ \ {record}, !.record = record,
                   !.pc = IF HasAudio(record) THEN "lookup" ELSE "next"])
        BY <3>3
      <4>2. record \in Record BY <2>1 DEF Task
      <4>3. GoodTask([tasks[t] EXCEPT
                   !.todo = @ \ {record}, !.record = record,
                   !.pc = IF HasAudio(record) THEN "lookup" ELSE "next"])
        BY <2>1, <4>2, <1>AudioRecords DEF GoodTask, Task
      <4>4. tasks' \in [Tasks -> Task] /\ Held'
        BY <4>1, <4>3, <1>BecomeGood
      <4> QED BY <4>4, <3>1 DEF TypeInv, TypeOK
    <3> QED BY <2>6, <3>2, <3>3 DEF NextRecord
  <2> QED BY <2>2, <2>3, <2>4, <2>r, <2>5, <2>6

(* The steps of ensure_inner, and the end of a call that is abandoned.     *)
<1>EnsureInnerTyped.
      ASSUME TypeInv, NEW t \in Tasks,
             \/ Lookup(t) \/ Retrieve(t) \/ Refuse(t) \/ Create(t)
             \/ WriteEnds(t) \/ Rename(t) \/ Abandon(t)
      PROVE  TypeInv'
  <2> USE <1>EnsureInnerTyped
  <2>1. /\ DOMAIN files \subseteq Name /\ FilesTyped(files)
        /\ \A name \in DOMAIN files : files[name] \in Content
        /\ tasks[t] \in Task /\ tasks[t].n \in Nat /\ counter \in Nat
    BY DEF TypeInv, TypeOK, FilesTyped, Task
  <2>r. Working(t) =>
          /\ tasks[t].record \in [id : Ids, hash : Hashes]
          /\ Temp(t) \in Name /\ PathFor(tasks[t].record) \in Name
    <3>1. Working(t) => tasks[t].record \in [id : Ids, hash : Hashes]
      BY DEF TypeInv, Held
    <3>2. \A r \in [id : Ids, hash : Hashes] : r.id \in Ids OBVIOUS
    <3> QED BY <2>1, <3>1, <3>2, Names DEF Temp
  <2>o. InPool(t) => Awaited(t) \in Operation
    <3>1. At(t, "remove") => tasks[t].target \in Name BY DEF TypeInv, Held
    <3> QED BY <2>r, <3>1 DEF InPool, Awaited, Operation, Working, At
  <2>2. CASE Lookup(t)
    <3>1. tasks' \in [Tasks -> Task] /\ Held'
      BY <2>2, <1>RecordDoneGood, <1>GotoGood DEF Lookup, At
    <3> QED BY <2>2, <3>1 DEF Lookup, TypeInv, TypeOK
  <2>3. CASE Retrieve(t)
    <3>1. GoodTask([tasks[t] EXCEPT !.pc = "create", !.n = counter])
      BY <2>1, <2>r, <2>3 DEF Retrieve, At, Working, GoodTask, Task
    <3>2. tasks' \in [Tasks -> Task] /\ Held'
      BY <2>3, <3>1, <1>BecomeGood DEF Retrieve
    <3> QED BY <2>1, <2>3, <3>2 DEF Retrieve, TypeInv, TypeOK
  <2>4. CASE Refuse(t)
    <3>1. tasks' \in [Tasks -> Task] /\ Held' BY <2>4, <1>RecordDoneGood DEF Refuse
    <3>2. spent' \in [DOMAIN Bounds -> Nat] BY <2>4, <1>SpendTyped DEF Refuse
    <3> QED BY <2>4, <3>1, <3>2 DEF Refuse, TypeInv, TypeOK
  <2>c. CASE Create(t)
    <3>1. tasks' \in [Tasks -> Task] /\ Held'
      BY <2>c, <1>GotoGood DEF Create, At
    <3>2. FilesTyped(files')
      BY <2>1, <2>o, <2>c, <1>FileOperations DEF Create, At, InPool
    <3> QED BY <2>c, <3>1, <3>2 DEF Create, TypeInv, TypeOK, FilesTyped
  <2>5. CASE WriteEnds(t)
    <3>1. tasks' \in [Tasks -> Task] /\ Held'
      BY <2>5, <1>GotoGood DEF WriteEnds, At
    <3>2. \A state \in {"whole", "garbled"} :
             Temp(t) \in DOMAIN files =>
                [files[Temp(t)] EXCEPT !.state = state] \in Content
      BY <2>1 DEF Content
    <3>3. \/ files' = files
          \/ /\ Temp(t) \in DOMAIN files
             /\ \E state \in {"whole", "garbled"} :
                   files' = Stored(Temp(t),
                                   [files[Temp(t)] EXCEPT !.state = state])
      BY <2>5 DEF WriteEnds
    <3>4. FilesTyped(files')
      BY <2>1, <2>r, <2>5, <3>2, <3>3, <1>FileOperations DEF WriteEnds, At, Working
    <3> QED BY <2>5, <3>1, <3>4 DEF WriteEnds, TypeInv, TypeOK, FilesTyped
  <2>6. CASE Rename(t)
    <3>1. tasks' \in [Tasks -> Task] /\ Held'
      BY <2>6, <1>RecordDoneGood, <1>ReturnGood DEF Rename
    <3>2. FilesTyped(files')
      BY <2>1, <2>o, <2>6, <1>FileOperations DEF Rename, At, InPool
    <3> QED BY <2>6, <3>1, <3>2 DEF Rename, TypeInv, TypeOK, FilesTyped
  <2>7. CASE Abandon(t)
    <3>1. tasks' \in [Tasks -> Task] /\ Held'
      BY <2>7, <1>ReturnGood DEF Abandon
    <3>2. spent' \in [DOMAIN Bounds -> Nat] BY <2>7, <1>SpendTyped DEF Abandon
    <3>3. late' \subseteq Operation
      BY <2>7, <2>o DEF Abandon, TypeInv, TypeOK
    <3> QED BY <2>7, <3>1, <3>2, <3>3 DEF Abandon, TypeInv, TypeOK
  <2> QED BY <2>2, <2>3, <2>4, <2>c, <2>5, <2>6, <2>7

<1>1. Init => TypeInv
  <2>1. Idle \in Task /\ Idle.pc = "idle" BY DEF Idle, Task
  <2> QED BY <2>1 DEF Init, TypeInv, TypeOK, Held, Working, At
<1>2. TypeInv /\ [Next]_vars => TypeInv'
  <2> SUFFICES ASSUME TypeInv, [Next]_vars PROVE TypeInv'
    OBVIOUS
  <2>1. CASE \E t \in Tasks : TaskStep(t)
    BY <2>1, <1>CallsTyped, <1>EnsureInnerTyped DEF TaskStep
  <2>2. CASE LateOperation
    <3>1. PICK op \in late : late' = late \ {op} /\ files' = Performed(op)
      BY <2>2 DEF LateOperation
    <3>2. FilesTyped(files) /\ op \in Operation
      BY DEF TypeInv, TypeOK, FilesTyped
    <3>3. FilesTyped(files') BY <3>1, <3>2, <1>FileOperations
    <3> QED BY <2>2, <3>1, <3>3
            DEF LateOperation, TypeInv, TypeOK, FilesTyped, Held, Working, At
  <2>3. CASE Crash
    <3>1. spent' \in [DOMAIN Bounds -> Nat] BY <2>3, <1>SpendTyped DEF Crash
    <3>2. Idle \in Task /\ Idle.pc = "idle" BY DEF Idle, Task
    <3> QED BY <2>3, <3>1, <3>2 DEF Crash, TypeInv, TypeOK, Held, Working, At
  <2>4. CASE ServerUpdates
    <3>1. spent' \in [DOMAIN Bounds -> Nat] BY <2>4, <1>SpendTyped DEF ServerUpdates
    <3> QED BY <2>4, <3>1 DEF ServerUpdates, TypeInv, TypeOK, Held, Working, At
  <2>5. CASE Finished \/ UNCHANGED vars
    BY <2>5 DEF Finished, vars, TypeInv, TypeOK, Held, Working, At
  <2> QED BY <2>1, <2>2, <2>3, <2>4, <2>5 DEF Next
<1> QED BY <1>1, <1>2, PTL DEF Spec

(* Type correctness of the audio cache.  In particular a path is only made *)
(* of a record with audio: path_for is Some wherever it is used.           *)
THEOREM CacheTypeCorrect == Spec => []TypeOK
<1>1. TypeInv => TypeOK BY DEF TypeInv
<1> QED BY <1>1, TypeInvAlways, PTL

-----------------------------------------------------------------------------
(* Files under final names.                                                *)

(* The temporary file of a download, by its number.                        *)
LEMMA TempOf ==
    ASSUME TypeInv, NEW t \in Tasks, Downloading(t)
    PROVE  /\ Temp(t).ext = "download" /\ Temp(t).n = tasks[t].n
           /\ PathFor(tasks[t].record).ext = "mp3"
<1>1. /\ tasks[t].record \in [id : Ids, hash : Hashes]
      /\ tasks[t].record.id \in Ids /\ tasks[t].n \in Nat
  BY DEF TypeInv, TypeOK, Held, Task, Downloading, Working
<1> QED BY <1>1, Names DEF Temp

(* WholeInv is an invariant.                                               *)
LEMMA WholeAlways == Spec => []WholeInv
(* Most steps start and advance no download, and add to the directory at   *)
(* most a whole file under a final name, or a temporary one nobody has.    *)
<1>QuietStep.
      ASSUME TypeInv, WholeInv, counter' = counter,
             \A op \in late' : op \in late \/ ~OfDownload(op),
             \A u \in Tasks : tasks'[u] = tasks[u] \/ ~Downloading(u)',
             \A name \in DOMAIN files' :
                \/ name \in DOMAIN files /\ files'[name] = files[name]
                \/ name.ext = "mp3" /\ files'[name].state = "whole"
                \/ /\ name.ext = "download"
                   /\ \A u \in Tasks : Downloading(u) => tasks[u].n # name.n
                   /\ \A op \in late' : OfDownload(op) => op.name.n # name.n
      PROVE  WholeInv'
  <2> USE <1>QuietStep
  <2>1. NumbersUnique' BY DEF WholeInv, NumbersUnique, Downloading
  <2>2. TempFiles'
    <3> SUFFICES ASSUME NEW u \in Tasks, tasks'[u].pc \in {"write", "rename"},
                        Temp(u)' \in DOMAIN files'
                 PROVE  /\ tasks'[u].pc = "write" =>
                              /\ files'[Temp(u)'].by = u
                              /\ files'[Temp(u)'].state = "open"
                        /\ tasks'[u].pc = "rename" =>
                              files'[Temp(u)'].state = "whole"
      BY DEF TempFiles, At
    <3>1. tasks'[u] = tasks[u] /\ Temp(u)' = Temp(u) /\ Downloading(u)
      BY DEF Temp, Downloading
    <3>2. Temp(u).ext = "download" /\ Temp(u).n = tasks[u].n BY <3>1, TempOf
    <3>3. Temp(u) \in DOMAIN files /\ files'[Temp(u)] = files[Temp(u)]
      BY <3>1, <3>2
    <3> QED BY <3>1, <3>3 DEF WholeInv, TempFiles, At
  <2>3. LateOperations'
    <3>1. \A op \in late' : OfDownload(op) =>
             /\ op \in late /\ op.name.ext = "download"
             /\ op.name \in DOMAIN files' =>
                   op.name \in DOMAIN files /\ files'[op.name] = files[op.name]
      BY DEF WholeInv, LateOperations
    <3> QED BY <3>1 DEF WholeInv, LateOperations, Downloading, OfDownload
  <2>4. CachedFilesWhole' BY DEF WholeInv, CachedFilesWhole
  <2> QED BY <2>1, <2>2, <2>3, <2>4 DEF WholeInv

(* A new download takes a number nobody has.                               *)
<1>RetrieveWhole. ASSUME TypeInv, WholeInv, NEW t \in Tasks, Retrieve(t)
                  PROVE  WholeInv'
  <2> USE <1>RetrieveWhole
  <2>1. /\ counter \in Nat /\ counter' = counter + 1
        /\ late' = late /\ files' = files
        /\ tasks \in [Tasks -> Task] /\ \A u \in Tasks : tasks[u].n \in Nat
        /\ tasks' = [tasks EXCEPT ![t] =
                        [tasks[t] EXCEPT !.pc = "create", !.n = counter]]
    BY DEF Retrieve, Become, TypeInv, TypeOK, Task
  <2>2. /\ tasks'[t].pc = "create" /\ tasks'[t].n = counter
        /\ \A u \in Tasks : u # t => tasks'[u] = tasks[u]
    BY <2>1 DEF Task
  <2>3. NumbersUnique'
    BY <2>1, <2>2 DEF WholeInv, NumbersUnique, Downloading
  <2>4. TempFiles'
    BY <2>1, <2>2 DEF WholeInv, TempFiles, At, Temp
  <2>5. LateOperations'
    <3>1. \A op \in late : OfDownload(op) =>
             op.name.n \in Nat /\ op.name.n < counter
      <4>1. \A op \in late : op.name \in Name
        BY DEF TypeInv, TypeOK, Operation
      <4>2. \A name \in Name : name.ext = "download" => name.n \in Nat
        BY DEF Name
      <4> QED BY <4>1, <4>2 DEF WholeInv, LateOperations
    <3>2. \A op \in late : OfDownload(op) =>
             \A u \in Tasks : Downloading(u)' => tasks'[u].n # op.name.n
      BY <2>1, <2>2, <3>1 DEF WholeInv, LateOperations, Downloading
    <3> QED BY <2>1, <3>1, <3>2 DEF WholeInv, LateOperations
  <2>6. CachedFilesWhole' BY <2>1 DEF WholeInv, CachedFilesWhole
  <2> QED BY <2>3, <2>4, <2>5, <2>6 DEF WholeInv

(* The steps that fill a temporary file touch nobody else's.               *)
<1>OwnFile.
      ASSUME TypeInv, WholeInv, NEW t \in Tasks, Downloading(t),
             counter' = counter, late' = late,
             NEW pc \in {"write", "rename"}, Goto(t, pc),
             \A name \in DOMAIN files' : name # Temp(t) =>
                name \in DOMAIN files /\ files'[name] = files[name],
             Temp(t) \in DOMAIN files' =>
                /\ pc = "write" => /\ files'[Temp(t)].by = t
                                   /\ files'[Temp(t)].state = "open"
                /\ pc = "rename" => files'[Temp(t)].state = "whole"
      PROVE  WholeInv'
  <2> USE <1>OwnFile
  <2>1. /\ tasks \in [Tasks -> Task]
        /\ tasks' = [tasks EXCEPT ![t] = [tasks[t] EXCEPT !.pc = pc]]
    BY DEF Goto, Become, TypeInv, TypeOK
  <2>2. /\ tasks'[t].pc = pc /\ tasks'[t].n = tasks[t].n
        /\ tasks'[t].record = tasks[t].record
        /\ \A u \in Tasks : u # t => tasks'[u] = tasks[u]
    BY <2>1 DEF Task
  <2>3. \A u \in Tasks : /\ Downloading(u)' = Downloading(u)
                         /\ Temp(u)' = Temp(u) /\ tasks'[u].n = tasks[u].n
    BY <2>1, <2>2 DEF Downloading, Temp
  <2>4. Temp(t).ext = "download" /\ Temp(t).n = tasks[t].n BY TempOf
  <2>5. NumbersUnique' BY <2>3 DEF WholeInv, NumbersUnique
  <2>6. TempFiles'
    <3>1. ASSUME NEW u \in Tasks, u # t, Downloading(u)
          PROVE  Temp(u) # Temp(t)
      BY <2>4, <3>1, TempOf DEF WholeInv, NumbersUnique
    <3>2. ASSUME NEW u \in Tasks, u # t
          PROVE  At(u, "write")' = At(u, "write")
                 /\ At(u, "rename")' = At(u, "rename")
      BY <2>2, <3>2 DEF At
    <3> QED BY <2>2, <2>3, <3>1, <3>2 DEF WholeInv, TempFiles, At, Downloading
  <2>7. LateOperations'
    <3>1. \A op \in late : OfDownload(op) => op.name # Temp(t)
      BY <2>4 DEF WholeInv, LateOperations
    <3> QED BY <2>3, <3>1 DEF WholeInv, LateOperations, OfDownload
  <2>8. CachedFilesWhole' BY <2>4 DEF WholeInv, CachedFilesWhole
  <2> QED BY <2>5, <2>6, <2>7, <2>8 DEF WholeInv

<1>CreateWhole. ASSUME TypeInv, WholeInv, NEW t \in Tasks, Create(t)
                PROVE  WholeInv'
  <2> USE <1>CreateWhole
  <2>1. /\ Downloading(t) /\ Goto(t, "write")
        /\ counter' = counter /\ late' = late
    BY DEF Create, Downloading, At
  <2>2. files' = Stored(Temp(t), [by |-> t, state |-> "open"])
    BY DEF Create, Performed, Awaited, At
  <2>3. /\ \A name \in DOMAIN files' : name # Temp(t) =>
              name \in DOMAIN files /\ files'[name] = files[name]
        /\ Temp(t) \in DOMAIN files' => /\ files'[Temp(t)].by = t
                                        /\ files'[Temp(t)].state = "open"
    BY <2>2 DEF Stored
  <2> QED BY <2>1, <2>3, <1>OwnFile

(* Only its own task has written to a temporary file, so it gets whole.    *)
<1>WriteEndsWhole. ASSUME TypeInv, WholeInv, NEW t \in Tasks, WriteEnds(t)
                   PROVE  WholeInv'
  <2> USE <1>WriteEndsWhole
  <2>1. /\ Downloading(t) /\ Goto(t, "rename") /\ At(t, "write")
        /\ counter' = counter /\ late' = late
    BY DEF WriteEnds, Downloading, At
  <2>2. /\ \A name \in DOMAIN files' : name # Temp(t) =>
              name \in DOMAIN files /\ files'[name] = files[name]
        /\ Temp(t) \in DOMAIN files' => files'[Temp(t)].state = "whole"
    <3>1. CASE Temp(t) \notin DOMAIN files BY <3>1 DEF WriteEnds
    <3>2. CASE Temp(t) \in DOMAIN files
      <4>1. files[Temp(t)].by = t /\ files[Temp(t)].state = "open"
        BY <2>1, <3>2 DEF WholeInv, TempFiles
      <4>2. files' = Stored(Temp(t), [files[Temp(t)] EXCEPT !.state = "whole"])
        BY <3>2, <4>1 DEF WriteEnds
      <4>3. files[Temp(t)] \in Content BY <3>2 DEF TypeInv, TypeOK
      <4> QED BY <3>2, <4>2, <4>3 DEF Stored, Content
    <3> QED BY <3>1, <3>2
  <2> QED BY <2>1, <2>2, <1>OwnFile

(* A dropped future hands its temporary file over to the late operation.   *)
<1>AbandonWhole. ASSUME TypeInv, WholeInv, NEW t \in Tasks, Abandon(t)
                 PROVE  WholeInv'
  <2> USE <1>AbandonWhole
  <2>1. /\ counter' = counter /\ files' = files /\ tasks'[t].pc = "idle"
        /\ \A u \in Tasks : u # t => tasks'[u] = tasks[u]
    BY IdleTask DEF Abandon, Return, Become, TypeInv, TypeOK
  <2> DEFINE op == Awaited(t)
  <2>2. CASE late' = late \/ (At(t, "remove") /\ late' = late \cup {op})
    <3>1. At(t, "remove") => ~OfDownload(op) BY DEF Awaited, OfDownload, At
    <3>2. \A other \in late' : other \in late \/ ~OfDownload(other)
      BY <2>2, <3>1
    <3>3. \A u \in Tasks : tasks'[u] = tasks[u] \/ ~Downloading(u)'
      BY <2>1 DEF Downloading
    <3> QED BY <2>1, <3>2, <3>3, <1>QuietStep
  <2>3. CASE /\ At(t, "create") \/ At(t, "rename")
             /\ late' = late \cup {op}
    <3>1. Downloading(t) BY <2>3 DEF Downloading, At
    <3>2. /\ op.name = Temp(t) /\ op.do = tasks[t].pc
          /\ At(t, "rename") => op.to = PathFor(tasks[t].record)
      BY <2>3 DEF Awaited, At
    <3>3. /\ op.name.ext = "download" /\ op.name.n = tasks[t].n
          /\ At(t, "rename") => op.to.ext = "mp3"
      BY <3>1, <3>2, TempOf
    <3>4. /\ tasks[t].n < counter
          /\ \A u \in Tasks : u # t /\ Downloading(u) => tasks[u].n # tasks[t].n
          /\ op.do = "rename" /\ op.name \in DOMAIN files =>
                files[op.name].state = "whole"
      BY <3>1, <3>2 DEF WholeInv, NumbersUnique, TempFiles, At
    <3>5. \A u \in Tasks : Downloading(u)' => /\ u # t /\ Downloading(u)
                                             /\ tasks'[u].n = tasks[u].n
      BY <2>1 DEF Downloading
    <3> HIDE DEF op
    <3>6. LateOperations'
      <4>1. \A other \in late : OfDownload(other) => other.name.n # op.name.n
        BY <3>1, <3>3 DEF WholeInv, LateOperations
      <4>2. op.do = "rename" => op.to.ext = "mp3" BY <3>2, <3>3 DEF At
      <4> QED BY <2>1, <2>3, <3>3, <3>4, <3>5, <4>1, <4>2
              DEF WholeInv, LateOperations, OfDownload
    <3>7. NumbersUnique' BY <2>1, <3>5 DEF WholeInv, NumbersUnique
    <3>8. TempFiles' BY <2>1 DEF WholeInv, TempFiles, At, Temp
    <3>9. CachedFilesWhole' BY <2>1 DEF WholeInv, CachedFilesWhole
    <3> QED BY <3>6, <3>7, <3>8, <3>9 DEF WholeInv
  <2> QED BY <2>2, <2>3 DEF Abandon, InPool, At

(* The steps of a task that are quiet.                                     *)
<1>QuietTaskStep.
      ASSUME TypeInv, WholeInv, NEW t \in Tasks,
             \/ Ensure(t) \/ Sync(t) \/ Prune(t) \/ Remove(t) \/ PruneEnds(t)
             \/ NextRecord(t) \/ Lookup(t) \/ Refuse(t) \/ Rename(t)
      PROVE  WholeInv'
  <2> USE <1>QuietTaskStep
  <2>1. tasks \in [Tasks -> Task] /\ tasks[t] \in Task BY DEF TypeInv, TypeOK
  <2> DEFINE Calm == \A u \in Tasks : tasks'[u] = tasks[u] \/ ~Downloading(u)'
  <2>2. \A task : /\ Become(t, task)
                 /\ task.pc \notin {"create", "write", "rename"} => Calm
    BY <2>1 DEF Become, Downloading
  <2>3. Return(t, "ok") \/ Return(t, "error") => Calm
    BY <2>2, IdleTask DEF Return
  <2>4. \A pc \in {"next", "retrieve"} : Goto(t, pc) => Calm
    <3>1. \A pc \in {"next", "retrieve"} : [tasks[t] EXCEPT !.pc = pc].pc = pc
      BY <2>1 DEF Task
    <3> QED BY <2>2, <3>1 DEF Goto
  <2>5. Done(t) => Calm BY <2>3, <2>4 DEF Done
  <2>6. Skip(t) => Calm
    <3>1. [tasks[t] EXCEPT !.pc = "next",
              !.skipped = @ \cup {tasks[t].record.id}].pc = "next"
      BY <2>1 DEF Task
    <3> QED BY <2>2, <2>3, <3>1 DEF Skip
  <2>7. Calm
    <3>1. CASE Ensure(t)
      <4>1. PICK record, quiet :
               \/ Return(t, "ok")
               \/ Become(t, [Idle EXCEPT !.pc = "lookup", !.job = "ensure",
                                         !.records = {record}, !.record = record,
                                         !.quiet = quiet])
        BY <3>1 DEF Ensure
      <4>2. [Idle EXCEPT !.pc = "lookup", !.job = "ensure",
                         !.records = {record}, !.record = record,
                         !.quiet = quiet].pc = "lookup"
        BY DEF Idle
      <4> QED BY <4>1, <4>2, <2>2, <2>3
    <3>2. CASE Sync(t)
      <4>1. PICK records, quiet :
               Become(t, [Idle EXCEPT !.pc = "prune", !.job = "sync",
                                      !.records = records, !.todo = records,
                                      !.unseen = DOMAIN files, !.quiet = quiet])
        BY <3>2 DEF Sync
      <4>2. [Idle EXCEPT !.pc = "prune", !.job = "sync", !.records = records,
                         !.todo = records, !.unseen = DOMAIN files,
                         !.quiet = quiet].pc = "prune"
        BY DEF Idle
      <4> QED BY <4>1, <4>2, <2>2
    <3>3. CASE Prune(t)
      <4>1. PICK name :
               Become(t, IF Prunable(name, tasks[t].records)
                         THEN [tasks[t] EXCEPT !.unseen = @ \ {name},
                                               !.pc = "remove", !.target = name]
                         ELSE [tasks[t] EXCEPT !.unseen = @ \ {name}])
        BY <3>3 DEF Prune
      <4>2. /\ [tasks[t] EXCEPT !.unseen = @ \ {name}].pc = "prune"
            /\ [tasks[t] EXCEPT !.unseen = @ \ {name}, !.pc = "remove",
                                !.target = name].pc = "remove"
        BY <2>1, <3>3 DEF Task, Prune, At
      <4> QED BY <4>1, <4>2, <2>2
    <3>r. CASE Remove(t)
      <4>1. /\ [tasks[t] EXCEPT !.pc = "prune", !.target = NoHash].pc = "prune"
            /\ [tasks[t] EXCEPT !.pc = "prune", !.target = NoHash,
                                !.kept = @ \cup {tasks[t].target}].pc = "prune"
        BY <2>1 DEF Task
      <4> QED BY <3>r, <4>1, <2>2 DEF Remove
    <3>4. CASE NextRecord(t)
      <4>1. CASE Return(t, "ok") BY <4>1, <2>3
      <4>2. CASE ~Return(t, "ok")
        <5>1. PICK record \in tasks[t].todo :
                 Become(t, [tasks[t] EXCEPT
                     !.todo = @ \ {record}, !.record = record,
                     !.pc = IF HasAudio(record) THEN "lookup" ELSE "next"])
          BY <3>4, <4>2 DEF NextRecord
        <5>2. [tasks[t] EXCEPT
                  !.todo = @ \ {record}, !.record = record,
                  !.pc = IF HasAudio(record) THEN "lookup" ELSE "next"].pc
              \in {"lookup", "next"}
          BY <2>1 DEF Task
        <5> QED BY <5>1, <5>2, <2>2
      <4> QED BY <4>1, <4>2
    <3>5. CASE PruneEnds(t) BY <3>5, <2>4 DEF PruneEnds
    <3>6. CASE Lookup(t) BY <3>6, <2>4, <2>5 DEF Lookup
    <3>7. CASE Refuse(t) BY <3>7, <2>6 DEF Refuse
    <3>8. CASE Rename(t) BY <3>8, <2>3, <2>5 DEF Rename
    <3> QED BY <3>1, <3>2, <3>3, <3>r, <3>4, <3>5, <3>6, <3>7, <3>8
  <2>8. counter' = counter /\ late' = late
    BY DEF Ensure, Sync, Prune, Remove, PruneEnds, NextRecord, Lookup, Refuse,
           Rename
  <2>9. \A name \in DOMAIN files' :
           \/ name \in DOMAIN files /\ files'[name] = files[name]
           \/ name.ext = "mp3" /\ files'[name].state = "whole"
    <3>1. CASE Rename(t) /\ Temp(t) \in DOMAIN files
      <4>1. At(t, "rename") /\ Downloading(t)
        BY <3>1 DEF Rename, At, Downloading
      <4>2. files' = Renamed(Temp(t), PathFor(tasks[t].record))
        BY <3>1, <4>1 DEF Rename, Performed, Awaited, At
      <4>3. /\ files[Temp(t)].state = "whole"
            /\ PathFor(tasks[t].record).ext = "mp3"
        BY <3>1, <4>1, TempOf DEF WholeInv, TempFiles
      <4> HIDE DEF Temp, PathFor
      <4> QED BY <4>2, <4>3 DEF Renamed
    <3>2. CASE Remove(t) BY <3>2 DEF Remove, Performed, Awaited, At, Removed
    <3>3. CASE Rename(t) /\ Temp(t) \notin DOMAIN files
      BY <3>3 DEF Rename, Performed, Awaited, At
    <3>4. CASE ~Remove(t) /\ ~Rename(t)
      BY <3>4 DEF Ensure, Sync, Prune, PruneEnds, NextRecord, Lookup, Refuse
    <3> QED BY <3>1, <3>2, <3>3, <3>4
  <2> QED BY <2>7, <2>8, <2>9, <1>QuietStep

<1>1. Init => WholeInv
  <2>1. Idle.pc = "idle" BY DEF Idle
  <2> QED BY <2>1 DEF Init, WholeInv, NumbersUnique, TempFiles, LateOperations,
             CachedFilesWhole, Downloading, At
<1>2. TypeInv /\ WholeInv /\ [Next]_vars => WholeInv'
  <2> SUFFICES ASSUME TypeInv, WholeInv, [Next]_vars PROVE WholeInv'
    OBVIOUS
  <2>1. CASE \E t \in Tasks : TaskStep(t)
    BY <2>1, <1>QuietTaskStep, <1>RetrieveWhole, <1>CreateWhole,
       <1>WriteEndsWhole, <1>AbandonWhole DEF TaskStep
  <2>2. CASE LateOperation
    <3>1. PICK op \in late : late' = late \ {op} /\ files' = Performed(op)
      BY <2>2 DEF LateOperation
    <3>2. op.do \in {"remove", "create", "rename"}
      BY DEF TypeInv, TypeOK, Operation
    <3>3. \A name \in DOMAIN files' :
             \/ name \in DOMAIN files /\ files'[name] = files[name]
             \/ name.ext = "mp3" /\ files'[name].state = "whole"
             \/ /\ name.ext = "download"
                /\ \A u \in Tasks : Downloading(u) => tasks[u].n # name.n
                /\ \A other \in late' : OfDownload(other) =>
                                           other.name.n # name.n
      <4>1. CASE op.do = "remove" BY <3>1, <4>1 DEF Performed, Removed
      <4>2. CASE op.do = "create"
        <5>1. /\ op.name.ext = "download"
              /\ \A u \in Tasks : Downloading(u) => tasks[u].n # op.name.n
              /\ \A other \in late' : OfDownload(other) =>
                                         other.name.n # op.name.n
          BY <3>1, <4>2 DEF WholeInv, LateOperations, OfDownload
        <5>2. files' = Stored(op.name, [by |-> op.by, state |-> "open"])
          BY <3>1, <4>2 DEF Performed
        <5> QED BY <5>1, <5>2 DEF Stored
      <4>3. CASE op.do = "rename"
        <5>1. /\ op.to.ext = "mp3"
              /\ op.name \in DOMAIN files => files[op.name].state = "whole"
          BY <4>3 DEF WholeInv, LateOperations, OfDownload
        <5>2. files' = IF op.name \in DOMAIN files
                       THEN Renamed(op.name, op.to) ELSE files
          BY <3>1, <4>3 DEF Performed
        <5> QED BY <5>1, <5>2 DEF Renamed
      <4> QED BY <3>2, <4>1, <4>2, <4>3
    <3>4. counter' = counter /\ tasks' = tasks BY <2>2 DEF LateOperation
    <3> QED BY <3>1, <3>3, <3>4, <1>QuietStep
  <2>3. CASE Crash
    <3>1. \A t \in Tasks : tasks'[t].pc = "idle" BY <2>3 DEF Crash, Idle
    <3> QED BY <2>3, <3>1 DEF Crash, WholeInv, NumbersUnique, TempFiles,
               LateOperations, CachedFilesWhole, Downloading, At
  <2>4. CASE ServerUpdates \/ Finished \/ UNCHANGED vars
    <3>1. UNCHANGED <<files, counter, tasks, late>>
      BY <2>4 DEF ServerUpdates, Finished, vars
    <3> QED BY <3>1, <1>QuietStep
  <2> QED BY <2>1, <2>2, <2>3, <2>4 DEF Next
<1> QED BY <1>1, <1>2, TypeInvAlways, PTL DEF Spec

(* A file under a final name is the whole result of one download, whatever *)
(* tasks, failures, dropped futures and crashes do: what the comment on    *)
(* write-then-rename and the unique suffix promises                        *)
(* (audio_cache.rs:121-124).                                               *)
THEOREM CacheIsWhole == Spec => []CachedFilesWhole
<1>1. WholeInv => CachedFilesWhole BY DEF WholeInv
<1> QED BY <1>1, WholeAlways, PTL
-----------------------------------------------------------------------------
(* What a call leaves behind, when one task uses the cache.                *)

Pruning(t) == tasks[t].pc \in {"prune", "remove"}

(* A record of the call is still to come, has no audio, was refused, is    *)
(* being worked on, or its file is there.                                  *)
Covered(t) ==
    \A r \in tasks[t].records :
        \/ r \in tasks[t].todo \/ r.hash = NoHash
        \/ r.id \in tasks[t].skipped
        \/ PathFor(r) \in DOMAIN files
        \/ Working(t) /\ r = tasks[t].record

(* A file no record refers to could not be removed, is still to be pruned, *)
(* or is the temporary one of the download in progress.                    *)
Clean(t) ==
    \A name \in DOMAIN files :
        \/ name \in Expected(tasks[t].records) \cup tasks[t].kept
        \/ Pruning(t) /\ name \in tasks[t].unseen
        \/ At(t, "remove") /\ name = tasks[t].target
        \/ Downloading(t) /\ name = Temp(t)

(* What makes SyncSettles inductive.  With one task, an operation of a     *)
(* dropped future can only be outstanding if it was when the call began.   *)
Progress(t) ==
    /\ tasks[t].result = "none"
    /\ tasks[t].todo \subseteq tasks[t].records
    /\ tasks[t].job # "sync" => tasks[t].todo = {}
    /\ Pruning(t) => tasks[t].todo = tasks[t].records
    /\ Working(t) => tasks[t].record \in tasks[t].records
    /\ tasks[t].quiet => /\ late = {}
                         /\ Covered(t)
                         /\ tasks[t].job = "sync" => Clean(t)

Settling(t) ==
    /\ tasks[t].job = "none" <=> At(t, "idle")
    /\ tasks[t].job # "none" => Progress(t)

(* What SyncSettles says of a step.                                        *)
Settled(t) ==
    tasks[t].job # "none" /\ tasks[t].quiet /\ tasks'[t].result = "ok" =>
        /\ \A r \in tasks[t].records :
              \/ r.hash = NoHash \/ r.id \in tasks[t].skipped
              \/ PathFor(r) \in DOMAIN files'
        /\ tasks[t].job = "sync" =>
              DOMAIN files' \subseteq
                 Expected(tasks[t].records) \cup tasks[t].kept

(* When a call returns Ok to the only task that uses the cache, and began  *)
(* with no operation of a dropped call outstanding, the files of all its   *)
(* records are there but for the ids it reports as skipped, and after a    *)
(* sync no other file is but for those it failed to remove                 *)
(* (audio_cache.rs:88-91, 138-144): for any achievements and any files     *)
(* that earlier failures, dropped calls and crashes have left behind.      *)
THEOREM SyncIsComplete == Spec => SyncSettles
(* The steps inside a call.                                                *)
<1>CallGoesOn.
      ASSUME NEW t \in Tasks, Settling(t),
             tasks[t].job # "none", tasks'[t].job = tasks[t].job,
             tasks'[t].result = tasks[t].result, tasks'[t].pc # "idle",
             Progress(t)'
      PROVE  Settling(t)' /\ Settled(t)
  <2>1. tasks'[t].result = "none" BY <1>CallGoesOn DEF Settling, Progress
  <2> QED BY <1>CallGoesOn, <2>1 DEF Settling, Settled, At

(* The steps that begin a call, and those that end one.                    *)
<1>CallBegins.
      ASSUME TypeInv, NEW t \in Tasks, Settling(t), Ensure(t) \/ Sync(t)
      PROVE  Settling(t)' /\ Settled(t)
  <2> USE <1>CallBegins
  <2>1. \A task : Become(t, task) => tasks'[t] = task
    BY DEF Become, TypeInv, TypeOK
  <2>2. Settled(t) BY DEF Ensure, Sync, Settling, Settled
  <2>3. CASE Ensure(t)
    <3>1. PICK record, quiet :
             /\ quiet = (late = {})
             /\ \/ Return(t, "ok")
                \/ Become(t, [Idle EXCEPT !.pc = "lookup", !.job = "ensure",
                                          !.records = {record},
                                          !.record = record, !.quiet = quiet])
      BY <2>3 DEF Ensure
    <3>2. CASE Return(t, "ok")
      <4>1. /\ [Idle EXCEPT !.result = "ok"].pc = "idle"
            /\ [Idle EXCEPT !.result = "ok"].job = "none"
        BY DEF Idle
      <4>2. tasks'[t].pc = "idle" /\ tasks'[t].job = "none"
        BY <2>1, <3>2, <4>1 DEF Return
      <4> QED BY <2>2, <4>2 DEF Settling, At
    <3>3. CASE ~Return(t, "ok")
      <4>1. LET task == [Idle EXCEPT !.pc = "lookup", !.job = "ensure",
                                     !.records = {record}, !.record = record,
                                     !.quiet = quiet]
            IN  /\ task.pc = "lookup" /\ task.job = "ensure"
                /\ task.result = "none" /\ task.records = {record}
                /\ task.todo = {} /\ task.record = record
                /\ task.quiet = quiet
        BY DEF Idle
      <4>2. /\ tasks'[t].pc = "lookup" /\ tasks'[t].job = "ensure"
            /\ tasks'[t].result = "none" /\ tasks'[t].records = {record}
            /\ tasks'[t].todo = {} /\ tasks'[t].record = record
            /\ tasks'[t].quiet => late = {}
        BY <2>1, <3>1, <3>3, <4>1
      <4>3. late' = late BY <2>3 DEF Ensure
      <4>4. Progress(t)'
        BY <4>2, <4>3 DEF Progress, Pruning, Working, Covered
      <4> QED BY <2>2, <4>2, <4>4 DEF Settling, At
    <3> QED BY <3>2, <3>3
  <2>4. CASE Sync(t)
    <3>1. PICK records, quiet :
             /\ quiet = (late = {})
             /\ Become(t, [Idle EXCEPT !.pc = "prune", !.job = "sync",
                                       !.records = records, !.todo = records,
                                       !.unseen = DOMAIN files,
                                       !.quiet = quiet])
      BY <2>4 DEF Sync
    <3>2. LET task == [Idle EXCEPT !.pc = "prune", !.job = "sync",
                                   !.records = records, !.todo = records,
                                   !.unseen = DOMAIN files, !.quiet = quiet]
          IN  /\ task.pc = "prune" /\ task.job = "sync" /\ task.result = "none"
              /\ task.records = records /\ task.todo = records
              /\ task.unseen = DOMAIN files /\ task.quiet = quiet
      BY DEF Idle
    <3>3. /\ tasks'[t].pc = "prune" /\ tasks'[t].job = "sync"
          /\ tasks'[t].result = "none" /\ tasks'[t].todo = tasks'[t].records
          /\ tasks'[t].unseen = DOMAIN files
          /\ tasks'[t].quiet => late = {}
      BY <2>1, <3>1, <3>2
    <3>4. late' = late /\ files' = files BY <2>4 DEF Sync
    <3>5. Progress(t)'
      BY <3>3, <3>4 DEF Progress, Pruning, Working, Covered, Clean
    <3> QED BY <2>2, <3>3, <3>5 DEF Settling, At
  <2> QED BY <2>3, <2>4

<1>CallEnds.
      ASSUME TypeInv, NEW t \in Tasks, Settling(t)
      PROVE  /\ Return(t, "error") => Settling(t)' /\ Settled(t)
             /\ Return(t, "ok") => Settling(t)'
  <2> USE <1>CallEnds
  <2>1. \A result \in {"ok", "error"} :
           /\ [Idle EXCEPT !.result = result].pc = "idle"
           /\ [Idle EXCEPT !.result = result].job = "none"
           /\ [Idle EXCEPT !.result = result].result = result
    BY DEF Idle
  <2>2. \A result \in {"ok", "error"} : Return(t, result) =>
           /\ tasks'[t].pc = "idle" /\ tasks'[t].job = "none"
           /\ tasks'[t].result = result
    BY <2>1 DEF Return, Become, TypeInv, TypeOK
  <2> QED BY <2>2 DEF Settling, Settled, At

(* The steps of sync itself.                                               *)
<1>PruneSettles. ASSUME TypeInv, NEW t \in Tasks, Settling(t),
                        \/ Prune(t) \/ Remove(t) \/ PruneEnds(t)
                        \/ NextRecord(t)
                 PROVE  Settling(t)' /\ Settled(t)
  <2> USE <1>PruneSettles
  <2>1. /\ tasks \in [Tasks -> Task] /\ tasks[t] \in Task
        /\ DOMAIN files \subseteq Name
    BY DEF TypeInv, TypeOK
  <2>2. \A task : Become(t, task) => tasks'[t] = task
    BY <2>1 DEF Become
  <2>3. /\ tasks[t].job # "none" /\ Progress(t)
        /\ late' = late
    BY DEF Prune, Remove, PruneEnds, NextRecord, Settling, At
  <2> DEFINE Same == /\ tasks'[t].job = tasks[t].job
                     /\ tasks'[t].result = tasks[t].result
                     /\ tasks'[t].records = tasks[t].records
                     /\ tasks'[t].quiet = tasks[t].quiet
  <2>4. ASSUME Same, tasks'[t].todo = tasks[t].todo, Pruning(t),
               tasks'[t].pc \in {"prune", "remove", "next"},
               tasks[t].quiet /\ tasks[t].job = "sync" => Clean(t)'
        PROVE  Settling(t)' /\ Settled(t)
    <3>1. tasks'[t].todo = tasks'[t].records BY <2>3, <2>4 DEF Progress
    <3>2. Progress(t)'
      BY <2>3, <2>4, <3>1 DEF Progress, Working, Covered
    <3> QED BY <2>3, <2>4, <3>2, <1>CallGoesOn
  <2>5. CASE Prune(t)
    <3>1. PICK name \in tasks[t].unseen \cup DOMAIN files :
             Become(t, IF Prunable(name, tasks[t].records)
                       THEN [tasks[t] EXCEPT !.unseen = @ \ {name},
                                             !.pc = "remove", !.target = name]
                       ELSE [tasks[t] EXCEPT !.unseen = @ \ {name}])
      BY <2>5 DEF Prune
    <3> DEFINE task == IF Prunable(name, tasks[t].records)
                       THEN [tasks[t] EXCEPT !.unseen = @ \ {name},
                                             !.pc = "remove", !.target = name]
                       ELSE [tasks[t] EXCEPT !.unseen = @ \ {name}]
    <3>2. /\ task.job = tasks[t].job /\ task.result = tasks[t].result
          /\ task.records = tasks[t].records /\ task.todo = tasks[t].todo
          /\ task.quiet = tasks[t].quiet /\ task.kept = tasks[t].kept
          /\ task.unseen = tasks[t].unseen \ {name}
          /\ IF Prunable(name, tasks[t].records)
             THEN task.pc = "remove" /\ task.target = name
             ELSE task.pc = tasks[t].pc
      BY <2>1 DEF Task
    <3>3. tasks'[t] = task BY <2>2, <3>1
    <3> HIDE DEF task
    <3>4. tasks[t].pc = "prune" /\ files' = files BY <2>5 DEF Prune, At
    <3>5. ASSUME tasks[t].quiet, tasks[t].job = "sync" PROVE Clean(t)'
      <4> SUFFICES ASSUME NEW f \in DOMAIN files,
                          f \notin Expected(tasks[t].records) \cup tasks[t].kept
                   PROVE  \/ f \in tasks'[t].unseen
                          \/ tasks'[t].pc = "remove" /\ f = tasks'[t].target
        BY <3>2, <3>3, <3>4 DEF Clean, At, Expected, Pruning
      <4>1. f \in tasks[t].unseen
        BY <2>3, <3>4, <3>5 DEF Progress, Clean, At, Downloading
      <4>2. Prunable(f, tasks[t].records)
        <5>1. f.ext = "mp3" \/ f.ext = "download" BY <2>1 DEF Name
        <5> QED BY <5>1 DEF Prunable
      <4> QED BY <3>2, <3>3, <4>1, <4>2
    <3> QED BY <2>4, <3>2, <3>3, <3>4, <3>5 DEF Pruning
  <2>r. CASE Remove(t)
    <3>1. tasks[t].pc = "remove" BY <2>r DEF Remove, At
    <3>2. PICK kept :
             /\ \/ kept = tasks[t].kept /\ files' = Removed(tasks[t].target)
                \/ kept = tasks[t].kept \cup {tasks[t].target} /\ files' = files
             /\ tasks'[t] = [tasks[t] EXCEPT !.pc = "prune", !.target = NoHash,
                                             !.kept = kept]
      <4>1. Performed(Awaited(t)) = Removed(tasks[t].target)
        BY <3>1 DEF Performed, Awaited, At
      <4>2. [tasks[t] EXCEPT !.pc = "prune", !.target = NoHash]
              = [tasks[t] EXCEPT !.pc = "prune", !.target = NoHash,
                                 !.kept = tasks[t].kept]
        BY <2>1 DEF Task
      <4> QED BY <2>r, <2>2, <4>1, <4>2 DEF Remove
    <3> DEFINE task == [tasks[t] EXCEPT !.pc = "prune", !.target = NoHash,
                                        !.kept = kept]
    <3>3. /\ task.pc = "prune" /\ task.kept = kept
          /\ task.job = tasks[t].job /\ task.result = tasks[t].result
          /\ task.records = tasks[t].records /\ task.todo = tasks[t].todo
          /\ task.quiet = tasks[t].quiet /\ task.unseen = tasks[t].unseen
      BY <2>1 DEF Task
    <3>4. tasks'[t] = task BY <3>2
    <3> HIDE DEF task
    <3>5. ASSUME tasks[t].quiet, tasks[t].job = "sync" PROVE Clean(t)'
      <4> SUFFICES ASSUME NEW f \in DOMAIN files',
                          f \notin Expected(tasks[t].records) \cup kept
                   PROVE  f \in tasks[t].unseen
        BY <3>3, <3>4 DEF Clean, At, Expected, Pruning
      <4>1. f \in DOMAIN files /\ f # tasks[t].target /\ f \notin tasks[t].kept
        BY <3>2 DEF Removed
      <4> QED BY <2>3, <3>1, <3>5, <4>1 DEF Progress, Clean, Downloading
    <3> QED BY <2>4, <3>1, <3>3, <3>4, <3>5 DEF Pruning
  <2>6. CASE PruneEnds(t)
    <3>1. LET task == [tasks[t] EXCEPT !.pc = "next"]
          IN  /\ task.pc = "next" /\ task.job = tasks[t].job
              /\ task.result = tasks[t].result /\ task.quiet = tasks[t].quiet
              /\ task.records = tasks[t].records /\ task.todo = tasks[t].todo
              /\ task.kept = tasks[t].kept
      BY <2>1 DEF Task
    <3>2. /\ tasks'[t].pc = "next" /\ tasks[t].pc = "prune"
          /\ Same /\ tasks'[t].todo = tasks[t].todo
          /\ tasks'[t].kept = tasks[t].kept
          /\ tasks[t].unseen = {} /\ files' = files
      BY <2>2, <2>6, <3>1 DEF PruneEnds, At, Goto
    <3>3. tasks[t].quiet /\ tasks[t].job = "sync" => Clean(t)'
      BY <2>3, <3>2 DEF Progress, Clean, Pruning, At, Downloading, Expected
    <3> QED BY <2>4, <3>2, <3>3 DEF Pruning
  <2>7. CASE NextRecord(t)
    <3>1. files' = files /\ tasks[t].pc = "next"
      BY <2>7 DEF NextRecord, At
    <3>2. CASE tasks[t].todo = {} /\ Return(t, "ok")
      <4>1. Settled(t)
        BY <2>3, <3>1, <3>2 DEF Settled, Progress, Covered, Clean, Working,
                                Pruning, At, Downloading
      <4> QED BY <3>2, <4>1, <1>CallEnds
    <3>3. ASSUME NEW record \in tasks[t].todo,
                 Become(t, [tasks[t] EXCEPT
                     !.todo = @ \ {record}, !.record = record,
                     !.pc = IF HasAudio(record) THEN "lookup" ELSE "next"])
          PROVE  Settling(t)' /\ Settled(t)
      <4> DEFINE task == [tasks[t] EXCEPT
                     !.todo = @ \ {record}, !.record = record,
                     !.pc = IF HasAudio(record) THEN "lookup" ELSE "next"]
      <4>1. /\ task.pc = IF HasAudio(record) THEN "lookup" ELSE "next"
            /\ task.job = tasks[t].job /\ task.result = tasks[t].result
            /\ task.records = tasks[t].records /\ task.record = record
            /\ task.todo = tasks[t].todo \ {record}
            /\ task.skipped = tasks[t].skipped
            /\ task.quiet = tasks[t].quiet /\ task.kept = tasks[t].kept
        BY <2>1 DEF Task
      <4>2. tasks'[t] = task
        BY <2>2, <3>3
      <4> HIDE DEF task
      <4>3. tasks[t].quiet => Covered(t)'
        BY <2>3, <3>1, <4>1, <4>2
           DEF Progress, Covered, Working, HasAudio, PathFor
      <4>4. tasks[t].quiet /\ tasks[t].job = "sync" => Clean(t)'
        BY <2>3, <3>1, <4>1, <4>2
           DEF Progress, Clean, Pruning, At, Downloading, Expected
      <4>5. Progress(t)'
        BY <2>3, <4>1, <4>2, <4>3, <4>4 DEF Progress, Pruning
      <4> QED BY <2>3, <4>1, <4>2, <4>5, <1>CallGoesOn
    <3> QED BY <2>7, <3>2, <3>3 DEF NextRecord
  <2> QED BY <2>5, <2>r, <2>6, <2>7

(* The steps of ensure_inner.                                              *)
<1>EnsureSettles.
      ASSUME TypeInv, NEW t \in Tasks, Settling(t),
             \/ Lookup(t) \/ Retrieve(t) \/ Refuse(t) \/ Create(t)
             \/ WriteEnds(t) \/ Rename(t)
      PROVE  Settling(t)' /\ Settled(t)
  <2> USE <1>EnsureSettles
  <2>1. /\ tasks \in [Tasks -> Task] /\ tasks[t] \in Task
        /\ DOMAIN files \subseteq Name
    BY DEF TypeInv, TypeOK
  <2>2. \A task : Become(t, task) => tasks'[t] = task
    BY <2>1 DEF Become
  <2> DEFINE record == tasks[t].record
             Same == /\ tasks'[t].job = tasks[t].job
                     /\ tasks'[t].result = tasks[t].result
                     /\ tasks'[t].records = tasks[t].records
                     /\ tasks'[t].todo = tasks[t].todo
                     /\ tasks'[t].record = record
                     /\ tasks'[t].quiet = tasks[t].quiet
                     /\ tasks'[t].kept = tasks[t].kept
  <2>3. ASSUME NEW pc \in {"next", "retrieve", "write", "rename"}, Goto(t, pc)
        PROVE  /\ Same /\ tasks'[t].pc = pc
               /\ tasks'[t].skipped = tasks[t].skipped
               /\ tasks'[t].n = tasks[t].n
    <3> DEFINE task == [tasks[t] EXCEPT !.pc = pc]
    <3>1. /\ task.pc = pc /\ task.job = tasks[t].job
          /\ task.result = tasks[t].result
          /\ task.records = tasks[t].records
          /\ task.todo = tasks[t].todo /\ task.record = record
          /\ task.quiet = tasks[t].quiet /\ task.kept = tasks[t].kept
          /\ task.skipped = tasks[t].skipped /\ task.n = tasks[t].n
      BY <2>1 DEF Task
    <3>2. tasks'[t] = task BY <2>2, <2>3 DEF Goto
    <3> HIDE DEF task
    <3> QED BY <3>1, <3>2
  <2>4. /\ Working(t) /\ tasks[t].job # "none" /\ Progress(t)
        /\ ~Pruning(t) /\ late' = late
    BY DEF Lookup, Retrieve, Refuse, Create, WriteEnds, Rename, Working,
           Pruning, At, Settling
  <2>5. record \in [id : Ids, hash : Hashes]
    BY <2>4 DEF TypeInv, Held
  <2>6. /\ tasks[t].todo \subseteq tasks[t].records
        /\ record \in tasks[t].records
        /\ PathFor(record) \in Expected(tasks[t].records)
    BY <2>4, <2>5, CacheAssumption DEF Progress, Expected, HasAudio
  <2>7. Downloading(t) => Temp(t).ext = "download" /\ \A r : PathFor(r).ext = "mp3"
    BY TempOf DEF PathFor
  <2>8. tasks[t].quiet /\ tasks[t].job = "sync" =>
           \A name \in DOMAIN files :
              \/ name \in Expected(tasks[t].records) \cup tasks[t].kept
              \/ Downloading(t) /\ name = Temp(t)
    BY <2>4 DEF Progress, Clean, Pruning, At
  <2> DEFINE Through == \/ PathFor(record) \in DOMAIN files'
                        \/ record.id \in tasks'[t].skipped
  (* A record that is found or fetched is the last of an ensure.           *)
  <2>9. ASSUME Return(t, "ok"), tasks[t].job # "sync",
               PathFor(record) \in DOMAIN files',
               \A r : PathFor(r) \in DOMAIN files => PathFor(r) \in DOMAIN files'
        PROVE  Settling(t)' /\ Settled(t)
    <3>1. Settled(t)
      BY <2>4, <2>9 DEF Settled, Progress, Covered
    <3> QED BY <2>9, <3>1, <1>CallEnds
  <2>10. CASE Return(t, "error") BY <2>10, <1>CallEnds
  <2>11. ASSUME Same,
                tasks'[t].pc \in {"next", "retrieve", "create", "write", "rename"},
                tasks[t].skipped \subseteq tasks'[t].skipped,
                \A r : PathFor(r) \in DOMAIN files => PathFor(r) \in DOMAIN files',
                Working(t)' \/ Through,
                tasks[t].quiet /\ tasks[t].job = "sync" => Clean(t)'
         PROVE  Settling(t)' /\ Settled(t)
    <3>1. tasks[t].quiet => Covered(t)'
      BY <2>4, <2>11 DEF Progress, Covered, PathFor
    <3>2. Progress(t)'
      BY <2>4, <2>6, <2>11, <3>1 DEF Progress, Pruning
    <3> QED BY <2>4, <2>11, <3>2, <1>CallGoesOn
  <2> HIDE DEF Same
  <2>12. CASE Lookup(t)
    <3>1. files' = files /\ tasks[t].pc = "lookup"
      BY <2>12 DEF Lookup, At
    <3>2. CASE PathFor(record) \in DOMAIN files /\ Goto(t, "next")
      BY <2>3, <2>8, <2>11, <3>1, <3>2
         DEF Same, Clean, Downloading, Expected
    <3>3. CASE Goto(t, "retrieve")
      BY <2>3, <2>8, <2>11, <3>1, <3>3
         DEF Same, Clean, Downloading, Working, Expected
    <3>4. CASE /\ PathFor(record) \in DOMAIN files /\ Return(t, "ok")
               /\ tasks[t].job # "sync"
      BY <2>9, <3>1, <3>4
    <3> QED BY <2>12, <3>2, <3>3, <3>4 DEF Lookup, Done
  <2>13. CASE Retrieve(t)
    <3>1. LET task == [tasks[t] EXCEPT !.pc = "create", !.n = counter]
          IN  /\ task.pc = "create" /\ task.job = tasks[t].job
              /\ task.result = tasks[t].result
              /\ task.records = tasks[t].records
              /\ task.todo = tasks[t].todo /\ task.record = record
              /\ task.quiet = tasks[t].quiet /\ task.kept = tasks[t].kept
              /\ task.skipped = tasks[t].skipped
      BY <2>1 DEF Task
    <3>2. /\ Same /\ tasks'[t].pc = "create" /\ files' = files
          /\ tasks'[t].skipped = tasks[t].skipped
      BY <2>2, <2>13, <3>1 DEF Retrieve, Same
    <3>3. ~Downloading(t) BY <2>13 DEF Retrieve, At, Downloading
    <3>4. tasks[t].quiet /\ tasks[t].job = "sync" => Clean(t)'
      BY <2>8, <3>2, <3>3 DEF Clean, Same, Expected
    <3> QED BY <2>11, <3>2, <3>4 DEF Working
  <2>14. CASE Refuse(t)
    <3>1. files' = files /\ tasks[t].pc = "retrieve"
      BY <2>14 DEF Refuse, At
    <3>2. CASE tasks[t].job = "sync"
      <4>1. LET task == [tasks[t] EXCEPT !.pc = "next",
                                         !.skipped = @ \cup {record.id}]
            IN  /\ task.pc = "next" /\ task.job = tasks[t].job
                /\ task.result = tasks[t].result
                /\ task.records = tasks[t].records
                /\ task.todo = tasks[t].todo /\ task.record = record
                /\ task.quiet = tasks[t].quiet /\ task.kept = tasks[t].kept
                /\ task.skipped = tasks[t].skipped \cup {record.id}
        BY <2>1 DEF Task
      <4>2. /\ Same /\ tasks'[t].pc = "next"
            /\ tasks'[t].skipped = tasks[t].skipped \cup {record.id}
        BY <2>2, <2>14, <3>2, <4>1 DEF Refuse, Skip, Same
      <4>3. tasks[t].quiet /\ tasks[t].job = "sync" => Clean(t)'
        BY <2>8, <3>1, <4>2 DEF Clean, Downloading, Same, Expected
      <4> QED BY <2>11, <3>1, <4>2, <4>3
    <3> QED BY <2>10, <2>14, <3>2 DEF Refuse, Skip
  <2>15. CASE Create(t)
    <3>1. /\ Same /\ tasks'[t].pc = "write" /\ tasks'[t].n = tasks[t].n
          /\ tasks'[t].skipped = tasks[t].skipped /\ Downloading(t)
      BY <2>3, <2>15 DEF Create, Downloading, At
    <3>2. Temp(t)' = Temp(t) BY <3>1 DEF Temp, Same
    <3>3. DOMAIN files' = DOMAIN files \cup {Temp(t)}
      BY <2>15 DEF Create, Performed, Awaited, At, Stored
    <3>4. tasks[t].quiet /\ tasks[t].job = "sync" => Clean(t)'
      BY <2>8, <3>1, <3>2, <3>3 DEF Clean, Downloading, Same, Expected
    <3> QED BY <2>11, <3>1, <3>3, <3>4 DEF Working
  <2>16. CASE WriteEnds(t)
    <3>1. DOMAIN files' = DOMAIN files
      BY <2>16 DEF WriteEnds, Stored
    <3>2. /\ Same /\ tasks'[t].pc = "rename" /\ tasks'[t].n = tasks[t].n
          /\ tasks'[t].skipped = tasks[t].skipped
      BY <2>3, <2>16 DEF WriteEnds
    <3>3. Temp(t)' = Temp(t) BY <3>2 DEF Temp, Same
    <3>4. tasks[t].quiet /\ tasks[t].job = "sync" => Clean(t)'
      BY <2>8, <3>1, <3>2, <3>3 DEF Clean, Downloading, Same, Expected
    <3> QED BY <2>11, <3>1, <3>2, <3>4 DEF Working
  <2>17. CASE Rename(t) /\ Temp(t) \in DOMAIN files
    <3>1. Downloading(t) /\ Done(t)
      BY <2>17 DEF Rename, At, Downloading
    <3>2. DOMAIN files' = (DOMAIN files \ {Temp(t)}) \cup {PathFor(record)}
      BY <2>17 DEF Rename, Performed, Awaited, At, Renamed
    <3>3. \A r : PathFor(r) \in DOMAIN files => PathFor(r) \in DOMAIN files'
      BY <2>7, <3>1, <3>2
    <3>4. CASE Goto(t, "next")
      <4>1. /\ Same /\ tasks'[t].pc = "next"
            /\ tasks'[t].skipped = tasks[t].skipped
        BY <2>3, <3>4
      <4>2. tasks[t].quiet /\ tasks[t].job = "sync" => Clean(t)'
        BY <2>6, <2>8, <3>2, <4>1 DEF Clean, Same, Expected
      <4> QED BY <2>11, <3>2, <3>3, <4>1, <4>2
    <3>5. CASE Return(t, "ok") /\ tasks[t].job # "sync"
      BY <2>9, <3>2, <3>3, <3>5
    <3> QED BY <3>1, <3>4, <3>5 DEF Done
  <2>18. CASE Rename(t) /\ Temp(t) \notin DOMAIN files
    BY <2>10, <2>18 DEF Rename
  <2> QED BY <2>12, <2>13, <2>14, <2>15, <2>16, <2>17, <2>18

<1> DEFINE Only == \A t \in Tasks : Tasks = {t} => Settling(t)
<1>1. Init => Only
  <2>1. Idle.pc = "idle" /\ Idle.job = "none"
    BY DEF Idle
  <2> QED BY <2>1 DEF Init, Settling, At
<1>2. ASSUME TypeInv, NEW t \in Tasks, Tasks = {t}, Settling(t), [Next]_vars
      PROVE  Settling(t)' /\ Settled(t)
  <2>1. CASE TaskStep(t)
    <3>1. CASE Abandon(t) BY <1>2, <3>1, <1>CallEnds DEF Abandon
    <3> QED BY <1>2, <2>1, <3>1, <1>CallBegins, <1>PruneSettles, <1>EnsureSettles
            DEF TaskStep
  <2>2. CASE LateOperation
    <3>1. late # {} /\ tasks' = tasks BY <2>2 DEF LateOperation
    <3>2. tasks[t].job # "none" => Progress(t) /\ ~tasks[t].quiet
      BY <1>2, <3>1 DEF Settling, Progress
    <3> QED BY <1>2, <3>1, <3>2
            DEF Settling, Settled, Progress, At, Working, Pruning
  <2>3. CASE Crash
    <3>1. Idle.pc = "idle" /\ Idle.job = "none" /\ Idle.result = "none"
      BY DEF Idle
    <3>2. /\ tasks'[t].pc = "idle" /\ tasks'[t].job = "none"
          /\ tasks'[t].result = "none"
      BY <1>2, <2>3, <3>1 DEF Crash
    <3> QED BY <1>2, <3>2 DEF Settling, Settled, At
  <2>4. CASE ServerUpdates \/ Finished \/ UNCHANGED vars
    <3>1. UNCHANGED <<files, tasks, late>>
      BY <2>4 DEF ServerUpdates, Finished, vars
    <3>2. Progress(t) => Progress(t)' /\ tasks[t].result = "none"
      BY <3>1 DEF Progress, Covered, Clean, Working, Pruning, Downloading, At,
                  Temp, Expected
    <3> QED BY <1>2, <3>1, <3>2 DEF Settling, Settled, At
  <2> QED BY <1>2, <2>1, <2>2, <2>3, <2>4 DEF Next
<1>3. Only /\ TypeInv /\ [Next]_vars => Only'
  BY <1>2
<1>4. ASSUME Only, TypeInv, [Next]_vars
      PROVE  \A t \in Tasks :
                /\ Tasks = {t} /\ tasks[t].job # "none" /\ tasks[t].quiet
                /\ tasks'[t].result = "ok"
                => /\ \A r \in tasks[t].records :
                         \/ r.hash = NoHash \/ r.id \in tasks[t].skipped
                         \/ PathFor(r) \in DOMAIN files'
                   /\ tasks[t].job = "sync" =>
                         DOMAIN files' \subseteq
                            Expected(tasks[t].records) \cup tasks[t].kept
  <2>1. \A t \in Tasks : Tasks = {t} => Settled(t)
    BY <1>2, <1>4
  <2> QED BY <2>1 DEF Settled
<1> HIDE DEF Only
<1>5. QED
  BY <1>1, <1>3, <1>4, TypeInvAlways, PTL DEF Spec, SyncSettles
=============================================================================
