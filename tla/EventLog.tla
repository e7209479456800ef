------------------------------ MODULE EventLog ------------------------------
(***************************************************************************)
(* The append-only event log of one run: RunStore and its writer thread    *)
(* (src/src/storage.rs), and the repair of a torn log by RunStore::create  *)
(* and by `iorec recover` (src/src/inspect.rs).                            *)
(*                                                                         *)
(* Tasks call append, durable_boundary and shutdown; each call puts one    *)
(* command on a bounded channel and waits for the answer.  One writer      *)
(* thread takes the commands in order, writes consecutive appends as one   *)
(* batch, syncs the file once and only then answers.  The process may die, *)
(* the machine may lose power, and every write and sync may fail.          *)
(*                                                                         *)
(* An event is the number of the append call that submitted it.  A line of *)
(* events.jsonl is a record [seq, ev]; sizes are counted in events.  The   *)
(* two log formats differ in how many events one physical record holds:    *)
(* one for jsonl, up to MAX_EVENT_BLOCK_EVENTS for zstd-blocks.            *)
(***************************************************************************)
EXTENDS Naturals, Sequences, FiniteSets

CONSTANTS
  Callers,        \* tasks holding a clone of the RunStore handle
  QueueCapacity,  \* EVENT_QUEUE_CAPACITY
  BlockEvents,    \* events per physical record (1: jsonl)
  EventLimit,     \* policy.max_event_storage_bytes, in events
  MaxCalls,       \* bound: append calls ever made
  MaxOpens,       \* bound: RunStore::create calls
  MaxFlushes,     \* bound: durable_boundary calls
  LiveRepair      \* TRUE: `iorec recover` may run beside a live writer

ASSUME EventLogAssumption ==
  /\ IsFiniteSet(Callers)
  /\ QueueCapacity \in Nat \ {0}
  /\ BlockEvents \in Nat \ {0}
  /\ EventLimit \in Nat
  /\ MaxCalls \in Nat
  /\ MaxOpens \in Nat
  /\ MaxFlushes \in Nat
  /\ LiveRepair \in BOOLEAN

VARIABLES
  file,      \* complete lines of events.jsonl, as the kernel shows them
  torn,      \* TRUE: bytes follow the last newline
  synced,    \* how many leading lines a power loss is sure to keep
  repair,    \* a repair between its scan and its truncation
  opens,     \* RunStore::create calls so far
  wpc,       \* where the writer thread is
  wseq,      \* the writer's `sequence`; stats.events is wseq - 1
  batch,     \* the batch being appended: [caller, ev] entries
  done,      \* `persisted`: entries of the batch written so far
  failed,    \* `failure` is set
  deferred,  \* the command that ended a drain, if any
  queue,     \* the command channel
  closed,    \* RunStoreInner.closed
  caller,    \* what each task is doing
  calls,     \* append calls ever made
  flushes,   \* durable_boundary calls ever made
  acked,     \* every append answered Ok: [caller, ev, seq]
  accepted,  \* appends of this store that passed the entry checks
  okays,     \* appends of this store answered Ok
  drops,     \* stats.capture_drops of this store
  boundary   \* the largest durable_boundary answered Ok

fileVars == <<file, torn, synced>>
writerVars == <<wpc, wseq, batch, done, failed, deferred>>
taskVars == <<queue, closed, caller, calls, flushes>>
history == <<acked, accepted, okays, drops, boundary>>
vars == <<fileVars, repair, opens, writerVars, taskVars, history>>

-----------------------------------------------------------------------------
NoEvent == 0
Idle == [pc |-> "idle", op |-> "none", ev |-> NoEvent]
NoRepair == [pc |-> "none", keep |-> 0, by |-> "none"]
Junk == [seq |-> 0, ev |-> NoEvent]

Event == 0..MaxCalls
Entry == [caller : Callers, ev : Event]
Command == [op : {"append", "flush", "shutdown"}, caller : Callers, ev : Event]
Line == [seq : Nat, ev : Event]
TaskState == {Idle} \cup [pc : {"send", "wait"}, ev : Event,
                          op : {"append", "flush", "shutdown"}]

(* recover_jsonl_records / recover_zstd_blocks accept the complete lines    *)
(* only when they carry the sequence numbers 1, 2, 3, ...; any other        *)
(* complete line is an error, not a torn tail.                              *)
Readable(log) == \A i \in 1..Len(log) : log[i].seq = i

Running == wpc \notin {"none", "stopped"}
Min2(a, b) == IF a <= b THEN a ELSE b

(* Commands still owned by the channel or by the writer.                    *)
Pending == deferred \o queue
Appending(some) == {c \in Callers : c \in some /\ caller[c].op = "append"}
InFlight == {c \in Callers : caller[c].pc # "idle" /\ caller[c].op = "append"}

Init ==
  /\ file = <<>> /\ torn = FALSE /\ synced = 0
  /\ repair = NoRepair
  /\ opens = 0
  /\ wpc = "none" /\ wseq = 1
  /\ batch = <<>> /\ done = 0 /\ failed = FALSE
  /\ deferred = <<>> /\ queue = <<>> /\ closed = FALSE
  /\ caller = [c \in Callers |-> Idle]
  /\ calls = 0 /\ flushes = 0
  /\ acked = {} /\ accepted = 0 /\ okays = 0 /\ drops = 0 /\ boundary = 0

-----------------------------------------------------------------------------
(* RunStore::create and `iorec recover`.                                    *)

(* RunStore::create once the log is known to hold `valid` events: fresh     *)
(* statistics, an empty channel and a writer thread that starts at          *)
(* last_sequence + 1.                                                       *)
OpenStore(valid) ==
  /\ opens' = opens + 1
  /\ wpc' = "starting" /\ wseq' = valid + 1
  /\ batch' = <<>> /\ done' = 0 /\ failed' = FALSE
  /\ deferred' = <<>> /\ queue' = <<>> /\ closed' = FALSE
  /\ caller' = [c \in Callers |-> Idle]
  /\ accepted' = 0 /\ okays' = 0 /\ drops' = 0
  /\ UNCHANGED <<calls, flushes, acked, boundary>>

(* create on a log without a torn tail: nothing to truncate.                *)
Create ==
  /\ wpc = "none" /\ opens < MaxOpens /\ repair.pc = "none"
  /\ Readable(file) /\ ~torn /\ Len(file) <= EventLimit
  /\ OpenStore(Len(file))
  /\ UNCHANGED <<fileVars, repair>>

(* Mutant of RepairScan: the last complete line is given up as well.        *)
RepairScan_OneLess(by) ==
  /\ repair.pc = "none" /\ wpc = "none" /\ opens < MaxOpens
  /\ Readable(file) /\ torn /\ file # <<>>
  /\ repair' = [pc |-> "scanned", keep |-> Len(file) - 1, by |-> by]
  /\ UNCHANGED <<fileVars, opens, writerVars, taskVars, history>>

(* recover_events_with_key(repair = true), first half: the scan finds the   *)
(* valid prefix and bytes behind it.  Neither caller holds .writer.lock.    *)
RepairScan(by) ==
  /\ repair.pc = "none"
  /\ \/ by = "create" /\ wpc = "none" /\ opens < MaxOpens
     \/ by = "recover" /\ (LiveRepair \/ wpc = "none")
  /\ Readable(file) /\ torn
  /\ repair' = [pc |-> "scanned", keep |-> Len(file), by |-> by]
  /\ UNCHANGED <<fileVars, opens, writerVars, taskVars, history>>

(* recover_events_with_key(repair = true), second half: the bytes after the *)
(* valid prefix are copied to a quarantine file, the log is truncated and   *)
(* synced.  create then goes on to open the store.                          *)
RepairTruncate ==
  /\ repair.pc = "scanned"
  /\ file' = SubSeq(file, 1, Min2(repair.keep, Len(file)))
  /\ torn' = FALSE
  /\ synced' = Min2(repair.keep, Len(file))
  /\ repair' = NoRepair
  /\ IF repair.by = "create" /\ repair.keep <= EventLimit
     THEN OpenStore(repair.keep)
     ELSE UNCHANGED <<opens, writerVars, taskVars, history>>

-----------------------------------------------------------------------------
(* The callers.                                                             *)

(* append: the entry check of `closed`, before the command is sent.         *)
AppendCall(c) ==
  /\ wpc # "none" /\ ~closed
  /\ caller[c].pc = "idle" /\ calls < MaxCalls
  /\ calls' = calls + 1
  /\ accepted' = accepted + 1
  /\ caller' = [caller EXCEPT ![c] =
                  [pc |-> "send", op |-> "append", ev |-> calls + 1]]
  /\ UNCHANGED <<fileVars, repair, opens, writerVars, queue, closed, flushes,
                 acked, okays, drops, boundary>>

(* durable_boundary has no entry check.                                     *)
FlushCall(c) ==
  /\ wpc # "none" /\ caller[c].pc = "idle" /\ flushes < MaxFlushes
  /\ flushes' = flushes + 1
  /\ caller' = [caller EXCEPT ![c] =
                  [pc |-> "send", op |-> "flush", ev |-> NoEvent]]
  /\ UNCHANGED <<fileVars, repair, opens, writerVars, queue, closed, calls,
                 history>>

(* shutdown: closed.swap(true); a second call returns at once.              *)
ShutdownCall(c) ==
  /\ wpc # "none" /\ caller[c].pc = "idle" /\ ~closed
  /\ closed' = TRUE
  /\ caller' = [caller EXCEPT ![c] =
                  [pc |-> "send", op |-> "shutdown", ev |-> NoEvent]]
  /\ UNCHANGED <<fileVars, repair, opens, writerVars, queue, calls, flushes,
                 history>>

(* sender.send(..).await: waits for a free slot while the receiver lives.   *)
Send(c) ==
  /\ caller[c].pc = "send" /\ Running /\ Len(queue) < QueueCapacity
  /\ queue' = Append(queue, [op |-> caller[c].op, caller |-> c,
                             ev |-> caller[c].ev])
  /\ caller' = [caller EXCEPT ![c].pc = "wait"]
  /\ UNCHANGED <<fileVars, repair, opens, writerVars, closed, calls, flushes,
                 history>>

(* Mutant of SendFails: the drop is not noted.                              *)
SendFails_NoDrop(c) ==
  /\ caller[c].pc = "send" /\ wpc = "stopped"
  /\ caller' = [caller EXCEPT ![c] = Idle]
  /\ UNCHANGED <<fileVars, repair, opens, writerVars, queue, closed, calls,
                 flushes, history>>

(* The receiver is gone: send returns an error, and append notes a drop.    *)
SendFails(c) ==
  /\ caller[c].pc = "send" /\ wpc = "stopped"
  /\ drops' = IF caller[c].op = "append" THEN drops + 1 ELSE drops
  /\ caller' = [caller EXCEPT ![c] = Idle]
  /\ UNCHANGED <<fileVars, repair, opens, writerVars, queue, closed, calls,
                 flushes, acked, accepted, okays, boundary>>

-----------------------------------------------------------------------------
(* The writer thread.                                                       *)

(* Mutant of StopWriter: the callers of queued commands are forgotten.      *)
StopWriter_Forget(also) ==
  /\ wpc' = "stopped" /\ deferred' = <<>> /\ queue' = <<>>
  /\ caller' = [c \in Callers |-> IF c \in also THEN Idle ELSE caller[c]]
  /\ drops' = drops + Cardinality(Appending(also))

(* writer_loop returns: the receiver is dropped, and with it every reply    *)
(* of a command still in the channel; `also` are the callers answered with  *)
(* an error by the step itself.  append notes a drop for each.              *)
StopWriter(also) ==
  LET gone == also \cup {Pending[i].caller : i \in 1..Len(Pending)}
  IN /\ wpc' = "stopped" /\ deferred' = <<>> /\ queue' = <<>>
     /\ caller' = [c \in Callers |-> IF c \in gone THEN Idle ELSE caller[c]]
     /\ drops' = drops + Cardinality(Appending(gone))

(* The head of writer_loop: lock the run, open the log, write and sync the  *)
(* header of a new zstd-blocks log.                                         *)
WriterStart ==
  /\ wpc = "starting"
  /\ wpc' = "idle"
  /\ UNCHANGED <<fileVars, repair, opens, wseq, batch, done, failed, deferred,
                 taskVars, history>>

(* One of those steps fails; a failed header write may leave part of it.    *)
WriterStartFails ==
  /\ wpc = "starting"
  /\ StopWriter({})
  /\ \/ torn' = torn
     \/ BlockEvents > 1 /\ file = <<>> /\ torn' = TRUE
  /\ UNCHANGED <<file, synced, repair, opens, wseq, batch, done, failed,
                 closed, calls, flushes, acked, accepted, okays, boundary>>

(* The next command is the deferred one, or the head of the channel.        *)
Take(op) ==
  /\ wpc = "idle" /\ Pending # <<>> /\ Head(Pending).op = op
  /\ deferred' = <<>>
  /\ queue' = IF deferred = <<>> THEN Tail(queue) ELSE queue

EntryOf(cmd) == [caller |-> cmd.caller, ev |-> cmd.ev]

(* An append opens a batch ...                                              *)
TakeAppend ==
  /\ Take("append")
  /\ batch' = <<EntryOf(Head(Pending))>>
  /\ done' = 0 /\ failed' = FALSE
  /\ wpc' = "drain"
  /\ UNCHANGED <<fileVars, repair, opens, wseq, closed, caller, calls, flushes,
                 history>>

(* ... and try_recv adds the appends that are queued behind it.             *)
DrainAppend ==
  /\ wpc = "drain" /\ queue # <<>> /\ Head(queue).op = "append"
  /\ batch' = Append(batch, EntryOf(Head(queue)))
  /\ queue' = Tail(queue)
  /\ UNCHANGED <<fileVars, repair, opens, wpc, wseq, done, failed, deferred,
                 closed, caller, calls, flushes, history>>

(* The drain ends at an empty channel or at another command.                *)
DrainEnd ==
  /\ wpc = "drain"
  /\ \/ queue = <<>> /\ UNCHANGED <<deferred, queue>>
     \/ /\ queue # <<>> /\ Head(queue).op # "append"
        /\ deferred' = <<Head(queue)>> /\ queue' = Tail(queue)
  /\ wpc' = "write"
  /\ UNCHANGED <<fileVars, repair, opens, wseq, batch, done, failed, closed,
                 caller, calls, flushes, history>>

(* The entries of the batch that the next physical record holds, and the    *)
(* lines they become: sequence + index.                                     *)
BlockSize == Min2(BlockEvents, Len(batch) - done)
BlockLines ==
  [i \in 1..BlockSize |-> [seq |-> wseq + done + i - 1, ev |-> batch[done + i].ev]]

(* Mutant of FitsBudget: forgets what the batch has written already.        *)
FitsBudget_Stale == wseq - 1 + BlockSize <= EventLimit

(* event_storage_bytes + persisted_bytes + requested against the limit.     *)
FitsBudget == wseq - 1 + done + BlockSize <= EventLimit

(* append_jsonl_records / append_zstd_blocks: the bytes of one record ...   *)
WriteBody ==
  /\ wpc = "write" /\ done < Len(batch) /\ FitsBudget
  /\ torn' = TRUE
  /\ wpc' = "newline"
  /\ UNCHANGED <<file, synced, repair, opens, wseq, batch, done, failed,
                 deferred, taskVars, history>>

(* Mutant of WriteNewline: a full block is counted for a short one.         *)
WriteNewline_FullBlock ==
  /\ wpc = "newline"
  /\ file' = file \o BlockLines /\ torn' = FALSE
  /\ done' = done + BlockEvents
  /\ wpc' = "write"
  /\ UNCHANGED <<synced, repair, opens, wseq, batch, failed, deferred,
                 taskVars, history>>

(* ... and its newline, which makes it a line.  If a repair truncated the   *)
(* bytes in between, what follows the newline is no event.                  *)
WriteNewline ==
  /\ wpc = "newline"
  /\ file' = file \o (IF torn THEN BlockLines ELSE <<Junk>>)
  /\ torn' = FALSE
  /\ done' = done + BlockSize
  /\ wpc' = "write"
  /\ UNCHANGED <<synced, repair, opens, wseq, batch, failed, deferred,
                 taskVars, history>>

(* The budget is exhausted, the event cannot be encoded, or the write       *)
(* fails, possibly after some bytes: the rest of the batch is given up.     *)
WriteFails ==
  /\ \/ wpc = "write" /\ done < Len(batch) /\ torn' \in {torn, TRUE}
     \/ wpc = "newline" /\ torn' = torn
  /\ torn' # torn => FitsBudget
  /\ failed' = TRUE
  /\ wpc' = "sync"
  /\ UNCHANGED <<file, synced, repair, opens, wseq, batch, done, deferred,
                 taskVars, history>>

BatchWritten ==
  /\ wpc = "write" /\ done = Len(batch)
  /\ wpc' = "sync"
  /\ UNCHANGED <<fileVars, repair, opens, wseq, batch, done, failed, deferred,
                 taskVars, history>>

BatchCallers(from, to) == {batch[i].caller : i \in from..to}
PendingCallers == {Pending[i].caller : i \in 1..Len(Pending)}

(* The replies of append_batch: Ok(sequence) for the first `ok` entries and *)
(* an error for the rest; `stop`: writer_loop returns the failure.          *)
AnswerBatch(ok, stop) ==
  LET lost == BatchCallers(ok + 1, Len(batch))
                \cup (IF stop THEN PendingCallers ELSE {})
  IN /\ wseq' = wseq + done
     /\ acked' = acked \cup {[caller |-> batch[i].caller, ev |-> batch[i].ev,
                              seq |-> wseq + i - 1] : i \in 1..ok}
     /\ okays' = okays + ok
     /\ drops' = drops + Cardinality(Appending(lost))
     /\ caller' = [c \in Callers |->
                     IF c \in lost \cup BatchCallers(1, ok)
                     THEN Idle ELSE caller[c]]
     /\ wpc' = IF stop THEN "stopped" ELSE "idle"
     /\ deferred' = IF stop THEN <<>> ELSE deferred
     /\ queue' = IF stop THEN <<>> ELSE queue
     /\ batch' = <<>> /\ done' = 0 /\ failed' = FALSE
     /\ UNCHANGED <<file, torn, repair, opens, closed, calls, flushes,
                    accepted, boundary>>

(* Mutants of SyncBatch: no sync; the whole batch acknowledged after a      *)
(* partial write; the writer goes on after a failed write.                  *)
SyncBatch_NoSync == wpc = "sync" /\ synced' = synced /\ AnswerBatch(done, failed)
SyncBatch_AckAll ==
  wpc = "sync" /\ synced' = Len(file) /\ AnswerBatch(Len(batch), failed)
SyncBatch_GoOn ==
  wpc = "sync" /\ synced' = Len(file) /\ AnswerBatch(done, FALSE)

(* The tail of append_batch: one sync for what was persisted, the replies,  *)
(* and after a failed write the end of the writer.                          *)
SyncBatch ==
  /\ wpc = "sync"
  /\ synced' = IF done > 0 THEN Len(file) ELSE synced
  /\ AnswerBatch(done, failed)

(* Mutants of SyncBatchFails: the writer stays up without advancing its     *)
(* sequence; the batch is written again.                                    *)
SyncBatchFails_GoOn ==
  /\ wpc = "sync" /\ done > 0
  /\ wpc' = "idle" /\ batch' = <<>> /\ done' = 0 /\ failed' = FALSE
  /\ caller' = [c \in Callers |-> IF c \in BatchCallers(1, Len(batch))
                                  THEN Idle ELSE caller[c]]
  /\ drops' = drops + Len(batch)
  /\ UNCHANGED <<fileVars, repair, opens, wseq, deferred, queue, closed, calls,
                 flushes, acked, accepted, okays, boundary>>
SyncBatchFails_Retry ==
  /\ wpc = "sync" /\ done > 0
  /\ wpc' = "write" /\ done' = 0 /\ failed' = FALSE
  /\ UNCHANGED <<fileVars, repair, opens, wseq, batch, deferred, taskVars,
                 history>>

(* The sync of a batch fails: every caller of the batch gets the error and  *)
(* the writer stops without advancing its sequence.                         *)
SyncBatchFails ==
  /\ wpc = "sync" /\ done > 0
  /\ StopWriter(BatchCallers(1, Len(batch)))
  /\ batch' = <<>> /\ done' = 0 /\ failed' = FALSE
  /\ UNCHANGED <<fileVars, repair, opens, wseq, closed, calls, flushes, acked,
                 accepted, okays, boundary>>

(* Mutant of Flush: no sync of its own.                                     *)
Flush_NoSync ==
  /\ Take("flush")
  /\ boundary' = IF wseq - 1 > boundary THEN wseq - 1 ELSE boundary
  /\ caller' = [caller EXCEPT ![Head(Pending).caller] = Idle]
  /\ UNCHANGED <<fileVars, repair, opens, wpc, wseq, batch, done, failed,
                 closed, calls, flushes, acked, accepted, okays, drops>>

(* WriterCommand::Flush: sync, then the statistics at this boundary.        *)
Flush ==
  /\ Take("flush")
  /\ synced' = Len(file)
  /\ boundary' = IF wseq - 1 > boundary THEN wseq - 1 ELSE boundary
  /\ caller' = [caller EXCEPT ![Head(Pending).caller] = Idle]
  /\ UNCHANGED <<file, torn, repair, opens, wpc, wseq, batch, done, failed,
                 closed, calls, flushes, acked, accepted, okays, drops>>

(* WriterCommand::Shutdown: sync, answer, return.                           *)
Shutdown ==
  /\ wpc = "idle" /\ Pending # <<>> /\ Head(Pending).op = "shutdown"
  /\ synced' = Len(file)
  /\ StopWriter({})
  /\ UNCHANGED <<file, torn, repair, opens, wseq, batch, done, failed, closed,
                 calls, flushes, acked, accepted, okays, boundary>>

(* The sync of a flush or of a shutdown fails: error, and the writer stops. *)
CommandSyncFails ==
  /\ wpc = "idle" /\ Pending # <<>> /\ Head(Pending).op # "append"
  /\ StopWriter({})
  /\ UNCHANGED <<fileVars, repair, opens, wseq, batch, done, failed, closed,
                 calls, flushes, acked, accepted, okays, boundary>>

(* Every handle was dropped without shutdown: blocking_recv returns None,   *)
(* the log is synced and the writer returns.                                *)
HandlesDropped ==
  /\ wpc = "idle" /\ Pending = <<>>
  /\ \A c \in Callers : caller[c].pc = "idle"
  /\ wpc' = "stopped" /\ closed' = TRUE
  /\ synced' \in {synced, Len(file)}
  /\ UNCHANGED <<file, torn, repair, opens, wseq, batch, done, failed,
                 deferred, queue, caller, calls, flushes, history>>

-----------------------------------------------------------------------------
(* The environment.                                                         *)

(* The recorder's process ends: the tasks, the channel and the writer go,   *)
(* what was written stays in the kernel's view of the file.                 *)
ProcessGone ==
  /\ wpc' = "none"
  /\ batch' = <<>> /\ done' = 0 /\ failed' = FALSE
  /\ deferred' = <<>> /\ queue' = <<>> /\ closed' = FALSE
  /\ caller' = [c \in Callers |-> Idle]
  /\ accepted' = 0 /\ okays' = 0 /\ drops' = 0
  /\ UNCHANGED <<opens, wseq, calls, flushes, acked, boundary>>

ProcessExit ==
  /\ wpc # "none" \/ repair.by = "create"
  /\ ProcessGone
  /\ repair' = IF repair.by = "create" THEN NoRepair ELSE repair
  /\ UNCHANGED fileVars

(* A power loss also ends a running repair, and keeps the synced lines and  *)
(* any part of what was written after them.                                 *)
PowerLoss ==
  /\ ProcessGone
  /\ repair' = NoRepair
  /\ \E k \in synced..Len(file) :
       /\ file' = SubSeq(file, 1, k)
       /\ synced' = k
       /\ torn' \in IF k < Len(file) \/ torn THEN BOOLEAN ELSE {FALSE}

-----------------------------------------------------------------------------
CallerStep(c) ==
  AppendCall(c) \/ FlushCall(c) \/ ShutdownCall(c) \/ Send(c) \/ SendFails(c)

WriterStep ==
  \/ WriterStart \/ WriterStartFails
  \/ TakeAppend \/ DrainAppend \/ DrainEnd
  \/ WriteBody \/ WriteNewline \/ WriteFails \/ BatchWritten
  \/ SyncBatch \/ SyncBatchFails
  \/ Flush \/ Shutdown \/ CommandSyncFails

Next ==
  \/ Create
  \/ \E by \in {"create", "recover"} : RepairScan(by)
  \/ RepairTruncate
  \/ \E c \in Callers : CallerStep(c)
  \/ WriterStep \/ HandlesDropped
  \/ ProcessExit \/ PowerLoss

Spec == Init /\ [][Next]_vars

(* The writer thread runs whenever it can, and tokio hands a freed slot of  *)
(* the channel to the senders in the order in which they wait.              *)
Fairness ==
  /\ WF_vars(WriterStep)
  /\ \A c \in Callers : SF_vars(Send(c)) /\ WF_vars(SendFails(c))

FairSpec == Spec /\ Fairness

-----------------------------------------------------------------------------
FileType ==
  /\ file \in Seq(Line)
  /\ torn \in BOOLEAN
  /\ synced \in 0..Len(file)
  /\ repair \in [pc : {"none", "scanned"}, keep : Nat,
                 by : {"none", "create", "recover"}]
  /\ opens \in Nat

WriterType ==
  /\ wpc \in {"none", "starting", "idle", "drain", "write", "newline", "sync",
              "stopped"}
  /\ wseq \in Nat \ {0}
  /\ batch \in Seq(Entry)
  /\ done \in 0..Len(batch)
  /\ wpc = "newline" => done < Len(batch)
  /\ failed \in BOOLEAN

TaskType ==
  /\ deferred \in Seq(Command)
  /\ queue \in Seq(Command)
  /\ closed \in BOOLEAN
  /\ caller \in [Callers -> TaskState]
  /\ calls \in 0..MaxCalls
  /\ flushes \in 0..MaxFlushes

HistoryType ==
  /\ acked \subseteq [caller : Callers, ev : Event, seq : Nat \ {0}]
  /\ accepted \in Nat /\ okays \in Nat /\ drops \in Nat
  /\ boundary \in Nat

TypeOK == FileType /\ WriterType /\ TaskType /\ HistoryType

(* An append answered Ok is on stable storage at the sequence it was given: *)
(* append_batch answers only after sync_data, and no crash, failed sync or  *)
(* repair takes the line away.                                              *)
AckedDurable ==
  \A a \in acked : /\ a.seq <= synced
                   /\ file[a.seq] = [seq |-> a.seq, ev |-> a.ev]

(* The complete lines always carry 1, 2, 3, ...: whatever was interrupted,  *)
(* recovery never meets the gap that recover_jsonl_records rejects.         *)
LogReadable == Readable(file)

(* No event is written twice, although a failed sync leaves events in the   *)
(* file that their callers were told are lost.                              *)
WrittenOnce ==
  \A i, j \in 1..Len(file) : file[i].ev = file[j].ev => i = j

(* Every append that passed the entry checks is answered Ok, counted in     *)
(* capture_drops, or still in flight, also when shutdown overtakes it or    *)
(* the writer dies with commands queued.                                    *)
NoSilentLoss ==
  wpc # "none" => accepted = okays + drops + Cardinality(InFlight)

(* The physical budget of the log holds across batches and restarts.        *)
WithinBudget == Len(file) <= EventLimit

(* A durable_boundary that was answered survives every later crash: the     *)
(* uploader sends events up to it to the platform.                          *)
BoundaryDurable == boundary <= synced

(* An orderly shutdown leaves a log that needs no repair and holds exactly  *)
(* the events its statistics report.                                        *)
CleanShutdown ==
  [][Shutdown => /\ ~torn' /\ Readable(file')
                 /\ Len(file') = wseq - 1 /\ synced' = Len(file')]_vars

(* Repair takes nothing but the incomplete final record from the log.       *)
RepairTakesOnlyTail == [][RepairTruncate => file' = file]_vars

(* Every call is answered, even when the writer stops under it.             *)
CallsAnswered ==
  \A c \in Callers : caller[c].pc # "idle" ~> caller[c].pc = "idle"

(* Where the writer is, as it relates to the file it has written: the       *)
(* inductive invariant behind the properties above.  Until the sync of a    *)
(* batch the file is `done` lines ahead of the writer's sequence, and those *)
(* lines are the persisted prefix of the batch; a repair finds no writer.   *)
WriterAtFile ==
  /\ Readable(file)
  /\ AckedDurable
  /\ WithinBudget
  /\ repair.pc = "scanned" => wpc = "none" /\ repair.keep = Len(file)
  /\ wpc \in {"starting", "idle"} => Len(file) = wseq - 1
  /\ wpc = "drain" => Len(file) = wseq - 1 /\ done = 0
  /\ wpc \in {"write", "newline", "sync"} =>
       /\ Len(file) = wseq - 1 + done
       /\ \A i \in 1..done : file[wseq - 1 + i].ev = batch[i].ev
  /\ wpc = "newline" => torn /\ done < Len(batch) /\ FitsBudget
  /\ wpc \in {"starting", "idle", "drain", "write"} => ~torn
  /\ wpc = "sync" /\ ~failed => ~torn

-----------------------------------------------------------------------------
(* What the log promises: positions that were acknowledged keep their event.*)
Durable == INSTANCE DurableLog WITH
  log <- [i \in 1..Len(file) |-> file[i].ev],
  acked <- {[ev |-> a.ev, seq |-> a.seq] : a \in acked},
  Events <- Event

(* Writing, syncing, crashing and repairing are steps of DurableLog: the    *)
(* log grows, acknowledges what it holds, and loses only what it never      *)
(* acknowledged.                                                            *)
ImplementsDurableLog == Durable!Spec
=============================================================================
