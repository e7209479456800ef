----------------------------- MODULE BlobStore ------------------------------
(***************************************************************************)
(* The content-addressed blob directory of one run: store_blob and its     *)
(* helpers in src/src/storage.rs.                                          *)
(*                                                                         *)
(* A task that stores a blob takes the blob's lock, looks for the file,    *)
(* reserves one directory entry and the bytes of the blob in two atomic    *)
(* counters, and lets a blocking thread write a temporary file, rename it  *)
(* without replacing, and sync the directory.  What the thread reports     *)
(* decides whether the reservation is kept or given back.  A task may be   *)
(* aborted while it waits; its thread then goes on alone.                  *)
(***************************************************************************)
EXTENDS Integers, FiniteSets, FiniteSetsExt

CONSTANTS
  Tasks,      \* tasks that store blobs
  Blobs,      \* blob identities: class and hash
  Size,       \* stored bytes of each blob
  ByteLimit,  \* policy.max_run_blob_storage_bytes
  FileLimit,  \* MAX_BLOB_DIRECTORY_ENTRIES
  MaxOpens,   \* bound: RunStore::create calls
  NoBlob

ASSUME BlobStoreAssumption ==
  /\ Size \in [Blobs -> Nat \ {0}]
  /\ ByteLimit \in Nat /\ FileLimit \in Nat /\ MaxOpens \in Nat
  /\ NoBlob \notin Blobs

VARIABLES
  up,        \* a store is open
  opens,     \* RunStore::create calls so far
  disk,      \* blobs under their final name
  durable,   \* those whose directory entry survives a power loss
  temp,      \* the temporary file of each task's thread
  orphan,    \* temporary files nobody will remove: [files, bytes]
  files,     \* blob_files
  bytes,     \* blob_storage_bytes
  blobs,     \* stats.blobs
  lock,      \* the holder of each blob's lock
  task,      \* what each task is doing
  job,       \* what its blocking thread is doing
  answered,  \* blobs whose store was answered Ok
  unsynced,  \* entries a failed sync, an abort or a crash may leave unsynced
  leaked     \* a reservation was given up for good

dirVars == <<disk, durable, temp, orphan>>
countVars == <<files, bytes, blobs>>
ghostVars == <<answered, unsynced, leaked>>
vars == <<up, opens, dirVars, countVars, lock, task, job, ghostVars>>

-----------------------------------------------------------------------------
Idle == [pc |-> "idle", blob |-> NoBlob, ok |-> FALSE]
NoJob == [pc |-> "none", blob |-> NoBlob, committed |-> FALSE, failed |-> FALSE,
          retained |-> FALSE]

Bytes(some) == MapThenSumSet(LAMBDA b : Size[b], some)
TempTasks == {t \in Tasks : temp[t] # NoBlob}
TempBytes(some) == MapThenSumSet(LAMBDA t : Size[temp[t]], some)

(* What the directory holds, as blob_directory_inventory counts it.         *)
UsedFiles == Cardinality(disk) + Cardinality(TempTasks) + orphan.files
UsedBytes == Bytes(disk) + TempBytes(TempTasks) + orphan.bytes

Init ==
  /\ up = FALSE /\ opens = 0
  /\ disk = {} /\ durable = {}
  /\ temp = [t \in Tasks |-> NoBlob] /\ orphan = [files |-> 0, bytes |-> 0]
  /\ files = 0 /\ bytes = 0 /\ blobs = 0
  /\ lock = [b \in Blobs |-> {}]
  /\ task = [t \in Tasks |-> Idle] /\ job = [t \in Tasks |-> NoJob]
  /\ answered = {} /\ unsynced = {} /\ leaked = FALSE

(* RunStore::create: the counters start from an inventory of the directory, *)
(* temporary files included.                                                *)
Open ==
  /\ ~up /\ opens < MaxOpens
  /\ UsedFiles <= FileLimit /\ UsedBytes <= ByteLimit
  /\ up' = TRUE /\ opens' = opens + 1
  /\ files' = UsedFiles /\ bytes' = UsedBytes /\ blobs' = 0
  /\ leaked' = FALSE
  /\ UNCHANGED <<dirVars, lock, task, job, answered, unsynced>>

-----------------------------------------------------------------------------
(* The task.                                                                *)

Goto(t, pc) == task' = [task EXCEPT ![t].pc = pc]
Leave(t) == /\ task' = [task EXCEPT ![t] = Idle]
            /\ lock' = [lock EXCEPT ![task[t].blob] = {}]

(* store_blob_with_limit up to the acquired lock of the blob.               *)
Store(t, b) ==
  /\ up /\ task[t].pc = "idle" /\ job[t].pc = "none" /\ lock[b] = {}
  /\ lock' = [lock EXCEPT ![b] = {t}]
  /\ task' = [task EXCEPT ![t] = [pc |-> "check", blob |-> b, ok |-> FALSE]]
  /\ UNCHANGED <<up, opens, dirVars, countVars, job, ghostVars>>

(* existing_blob_matches: a stored blob is answered without further work.   *)
Found(t) ==
  /\ task[t].pc = "check" /\ task[t].blob \in disk
  /\ answered' = answered \cup {task[t].blob}
  /\ Leave(t)
  /\ UNCHANGED <<up, opens, dirVars, countVars, job, unsynced, leaked>>

Missing(t) ==
  /\ task[t].pc = "check" /\ task[t].blob \notin disk
  /\ Goto(t, "files")
  /\ UNCHANGED <<up, opens, dirVars, countVars, lock, job, ghostVars>>

(* The file cannot be read: the store fails before it reserves anything.    *)
CheckFails(t) ==
  /\ task[t].pc = "check"
  /\ Leave(t)
  /\ UNCHANGED <<up, opens, dirVars, countVars, job, ghostVars>>

(* Mutant of ReserveFile: one entry too many.                               *)
ReserveFile_OffByOne(t) ==
  /\ task[t].pc = "files"
  /\ IF files <= FileLimit
     THEN files' = files + 1 /\ Goto(t, "bytes") /\ lock' = lock
     ELSE files' = files /\ Leave(t)
  /\ UNCHANGED <<up, opens, dirVars, bytes, blobs, job, ghostVars>>

(* reserve_blob_file: a compare-and-exchange loop, one atomic step.         *)
ReserveFile(t) ==
  /\ task[t].pc = "files"
  /\ IF files < FileLimit
     THEN files' = files + 1 /\ Goto(t, "bytes") /\ lock' = lock
     ELSE files' = files /\ Leave(t)
  /\ UNCHANGED <<up, opens, dirVars, bytes, blobs, job, ghostVars>>

(* Mutant of ReserveBytes: the budget is compared before the blob is added. *)
ReserveBytes_Unchecked(t) ==
  /\ task[t].pc = "bytes"
  /\ IF bytes < ByteLimit
     THEN /\ bytes' = bytes + Size[task[t].blob]
          /\ Goto(t, "persist")
          /\ job' = [job EXCEPT ![t] = [NoJob EXCEPT !.pc = "write",
                                                     !.blob = task[t].blob]]
     ELSE bytes' = bytes /\ Goto(t, "unfile") /\ job' = job
  /\ UNCHANGED <<up, opens, dirVars, files, blobs, lock, ghostVars>>

(* reserve_blob_storage, and the start of the blocking thread.              *)
ReserveBytes(t) ==
  /\ task[t].pc = "bytes"
  /\ IF bytes + Size[task[t].blob] <= ByteLimit
     THEN /\ bytes' = bytes + Size[task[t].blob]
          /\ Goto(t, "persist")
          /\ job' = [job EXCEPT ![t] = [NoJob EXCEPT !.pc = "write",
                                                     !.blob = task[t].blob]]
     ELSE bytes' = bytes /\ Goto(t, "unfile") /\ job' = job
  /\ UNCHANGED <<up, opens, dirVars, files, blobs, lock, ghostVars>>

(* The bytes did not fit: the directory entry is given back.                *)
Unfile(t) ==
  /\ task[t].pc = "unfile"
  /\ files' = files - 1
  /\ Leave(t)
  /\ UNCHANGED <<up, opens, dirVars, bytes, blobs, job, ghostVars>>

(* The thread's report.  A created blob is counted; a reservation that      *)
(* holds nothing is released; a retained one is kept although the store     *)
(* fails.                                                                   *)
Report(t) ==
  /\ task[t].pc = "persist" /\ job[t].pc = "done"
  /\ job' = [job EXCEPT ![t] = NoJob]
  /\ \/ /\ ~job[t].failed /\ job[t].committed
        /\ blobs' = blobs + 1
        /\ answered' = answered \cup {task[t].blob}
        /\ Leave(t)
     \/ /\ ~job[t].retained /\ (job[t].failed \/ ~job[t].committed)
        /\ task' = [task EXCEPT ![t].pc = "release", ![t].ok = ~job[t].failed]
        /\ UNCHANGED <<blobs, answered, lock>>
     \/ /\ job[t].failed /\ job[t].retained
        /\ Leave(t)
        /\ UNCHANGED <<blobs, answered>>
  /\ UNCHANGED <<up, opens, dirVars, files, bytes, unsynced, leaked>>

(* release_blob_file ...                                                    *)
ReleaseFile(t) ==
  /\ task[t].pc = "release"
  /\ files' = files - 1
  /\ Goto(t, "releaseBytes")
  /\ UNCHANGED <<up, opens, dirVars, bytes, blobs, lock, job, ghostVars>>

(* Mutant of ReleaseBytes: the bytes are forgotten.                         *)
ReleaseBytes_Forget(t) ==
  /\ task[t].pc = "releaseBytes"
  /\ Leave(t)
  /\ UNCHANGED <<up, opens, dirVars, countVars, job, ghostVars>>

(* ... and release_blob_storage; then the store returns.                    *)
ReleaseBytes(t) ==
  /\ task[t].pc = "releaseBytes"
  /\ bytes' = bytes - Size[task[t].blob]
  /\ answered' = IF task[t].ok THEN answered \cup {task[t].blob} ELSE answered
  /\ Leave(t)
  /\ UNCHANGED <<up, opens, dirVars, files, blobs, job, unsynced, leaked>>

(* The task is dropped while it awaits the check or its thread: the lock    *)
(* goes, the reservation stays, the thread keeps running.                   *)
Abort(t) ==
  /\ task[t].pc \in {"check", "persist"}
  /\ Leave(t)
  /\ leaked' = (leaked \/ task[t].pc = "persist")
  /\ unsynced' = IF task[t].pc = "persist" THEN unsynced \cup {task[t].blob}
                 ELSE unsynced
  /\ UNCHANGED <<up, opens, dirVars, countVars, job, answered>>

-----------------------------------------------------------------------------
(* The blocking thread: persist_blob.                                       *)

JobGoto(t, pc) == job' = [job EXCEPT ![t].pc = pc]

(* Create, write and sync the temporary file; each may fail, creation       *)
(* without leaving a file behind.                                           *)
WriteTemp(t) ==
  /\ job[t].pc = "write"
  /\ \/ /\ temp' = [temp EXCEPT ![t] = job[t].blob]
        /\ JobGoto(t, "rename")
     \/ /\ temp' \in {temp, [temp EXCEPT ![t] = job[t].blob]}
        /\ job' = [job EXCEPT ![t].pc = "cleanup", ![t].failed = TRUE]
  /\ UNCHANGED <<up, opens, disk, durable, orphan, countVars, lock, task,
                 ghostVars>>

(* renameat2(RENAME_NOREPLACE): a new entry, an equal file that is there    *)
(* already, or an error.                                                    *)
Rename(t) ==
  /\ job[t].pc = "rename"
  /\ \/ /\ job[t].blob \notin disk
        /\ disk' = disk \cup {job[t].blob}
        /\ temp' = [temp EXCEPT ![t] = NoBlob]
        /\ job' = [job EXCEPT ![t].pc = "sync", ![t].committed = TRUE]
     \/ /\ job[t].blob \in disk
        /\ JobGoto(t, "cleanup")
        /\ UNCHANGED <<disk, temp>>
     \/ /\ job' = [job EXCEPT ![t].pc = "cleanup", ![t].failed = TRUE]
        /\ UNCHANGED <<disk, temp>>
  /\ UNCHANGED <<up, opens, durable, orphan, countVars, lock, task, ghostVars>>

(* Mutant of Cleanup: a file that could not be removed is released.         *)
Cleanup_Released(t) ==
  /\ job[t].pc = "cleanup"
  /\ temp' = [temp EXCEPT ![t] = NoBlob]
  /\ \/ /\ temp[t] # NoBlob
        /\ JobGoto(t, IF job[t].failed THEN "done" ELSE "sync")
        /\ UNCHANGED <<orphan, leaked>>
     \/ /\ job' = [job EXCEPT ![t].pc = "done", ![t].failed = TRUE]
        /\ orphan' = IF temp[t] = NoBlob THEN orphan
                     ELSE [files |-> orphan.files + 1,
                           bytes |-> orphan.bytes + Size[temp[t]]]
        /\ leaked' = leaked
  /\ UNCHANGED <<up, opens, disk, durable, countVars, lock, task, answered,
                 unsynced>>

(* An uncommitted temporary file is removed.  When that fails, also because *)
(* it was never created, the reservation is kept for good.                  *)
Cleanup(t) ==
  /\ job[t].pc = "cleanup"
  /\ temp' = [temp EXCEPT ![t] = NoBlob]
  /\ \/ /\ temp[t] # NoBlob
        /\ JobGoto(t, IF job[t].failed THEN "done" ELSE "sync")
        /\ UNCHANGED <<orphan, leaked>>
     \/ /\ job' = [job EXCEPT ![t].pc = "done", ![t].failed = TRUE,
                              ![t].retained = TRUE]
        /\ orphan' = IF temp[t] = NoBlob THEN orphan
                     ELSE [files |-> orphan.files + 1,
                           bytes |-> orphan.bytes + Size[temp[t]]]
        /\ leaked' = (leaked \/ temp[t] = NoBlob)
  /\ UNCHANGED <<up, opens, disk, durable, countVars, lock, task, answered,
                 unsynced>>

(* Mutant of SyncDir: the directory is not synced.                          *)
SyncDir_Skip(t) ==
  /\ job[t].pc = "sync"
  /\ JobGoto(t, "done")
  /\ UNCHANGED <<up, opens, dirVars, countVars, lock, task, ghostVars>>

(* The sync of the directory makes every present entry durable; a failed    *)
(* one leaves a committed blob in place and its reservation with it.        *)
SyncDir(t) ==
  /\ job[t].pc = "sync"
  /\ \/ /\ durable' = disk
        /\ JobGoto(t, "done")
        /\ unsynced' = unsynced \ disk
     \/ /\ durable' = durable
        /\ job' = [job EXCEPT ![t].pc = "done", ![t].failed = TRUE,
                              ![t].retained = job[t].committed]
        /\ unsynced' = unsynced \cup (disk \ durable)
  /\ UNCHANGED <<up, opens, disk, temp, orphan, countVars, lock, task, answered,
                 leaked>>

(* A thread whose task was aborted ends unheard.                            *)
Unheard(t) ==
  /\ job[t].pc = "done" /\ task[t].pc # "persist"
  /\ job' = [job EXCEPT ![t] = NoJob]
  /\ UNCHANGED <<up, opens, dirVars, countVars, lock, task, ghostVars>>

-----------------------------------------------------------------------------
(* The process ends; temporary files in `stay` are left behind.             *)
Gone(stay) ==
  /\ up' = FALSE
  /\ temp' = [t \in Tasks |-> NoBlob]
  /\ orphan' = [files |-> orphan.files + Cardinality(stay),
                bytes |-> orphan.bytes + TempBytes(stay)]
  /\ lock' = [b \in Blobs |-> {}]
  /\ task' = [t \in Tasks |-> Idle] /\ job' = [t \in Tasks |-> NoJob]
  /\ leaked' = FALSE
  /\ UNCHANGED <<opens, countVars, answered>>

ProcessExit ==
  /\ up
  /\ Gone(TempTasks)
  /\ unsynced' = unsynced \cup (disk \ durable)
  /\ UNCHANGED <<disk, durable>>

(* A power loss keeps the durable entries and any of the others.            *)
PowerLoss ==
  /\ \E stay \in SUBSET TempTasks : Gone(stay)
  /\ \E kept \in SUBSET (disk \ durable) :
       disk' = durable \cup kept /\ durable' = durable \cup kept
  /\ unsynced' = unsynced

TaskStep(t) ==
  \/ \E b \in Blobs : Store(t, b)
  \/ Found(t) \/ Missing(t) \/ CheckFails(t)
  \/ ReserveFile(t) \/ ReserveBytes(t) \/ Unfile(t)
  \/ Report(t) \/ ReleaseFile(t) \/ ReleaseBytes(t)

JobStep(t) == WriteTemp(t) \/ Rename(t) \/ Cleanup(t) \/ SyncDir(t) \/ Unheard(t)

Next ==
  \/ Open
  \/ \E t \in Tasks : TaskStep(t) \/ Abort(t) \/ JobStep(t)
  \/ ProcessExit \/ PowerLoss

Spec == Init /\ [][Next]_vars

-----------------------------------------------------------------------------
TypeOK ==
  /\ up \in BOOLEAN /\ opens \in 0..MaxOpens
  /\ durable \subseteq disk /\ disk \subseteq Blobs
  /\ temp \in [Tasks -> Blobs \cup {NoBlob}]
  /\ orphan \in [files : Nat, bytes : Nat]
  /\ files \in 0..FileLimit /\ bytes \in Nat /\ blobs \in Nat
  /\ lock \in [Blobs -> SUBSET Tasks]
  /\ task \in [Tasks -> [pc : {"idle", "check", "files", "bytes", "unfile",
                               "persist", "release", "releaseBytes"},
                         blob : Blobs \cup {NoBlob}, ok : BOOLEAN]]
  /\ job \in [Tasks -> [pc : {"none", "write", "rename", "cleanup", "sync", "done"},
                        blob : Blobs \cup {NoBlob}, committed : BOOLEAN,
                        failed : BOOLEAN, retained : BOOLEAN]]
  /\ answered \subseteq Blobs /\ unsynced \subseteq Blobs /\ leaked \in BOOLEAN

(* The physical directory, temporary and orphaned files included, stays     *)
(* within both limits, whatever races, aborts and failures happen, so that  *)
(* a later RunStore::create never refuses the run for its own leftovers.    *)
WithinBudget == UsedFiles <= FileLimit /\ UsedBytes <= ByteLimit

(* While a store is open its counters cover what is on disk: a released     *)
(* reservation never stood for a file that is still there.                  *)
ReservationCoversDisk == up => UsedFiles <= files /\ UsedBytes <= bytes

(* No reservation is lost while nothing was aborted and every temporary     *)
(* file could be handled: an idle store's counters are exact.               *)
ExactWhenIdle ==
  up /\ ~leaked /\ (\A t \in Tasks : task[t].pc = "idle" /\ job[t].pc = "none")
    => files = UsedFiles /\ bytes = UsedBytes

(* A store answered Ok left the blob's entry durable, unless an earlier     *)
(* directory sync failed, or a crash or an abort came between the rename    *)
(* and the sync: existing_blob_matches answers for an entry nobody synced.  *)
AnsweredDurable == answered \subseteq durable \cup unsynced
=============================================================================
