--------------------------- MODULE EventLogProofs ---------------------------
(***************************************************************************)
(* Proofs about the event log, for every number of callers, every channel  *)
(* capacity, block size and budget.                                        *)
(***************************************************************************)
EXTENDS EventLog, FiniteSetTheorems, TLAPS

-----------------------------------------------------------------------------
(* Type correctness.                                                        *)

(* The number of appends counted as drops by one step is a number.          *)
LEMMA AppendingNat == \A some : Cardinality(Appending(some)) \in Nat
<1> SUFFICES ASSUME NEW some PROVE Cardinality(Appending(some)) \in Nat
  OBVIOUS
<1>1. Appending(some) \subseteq Callers
  BY DEF Appending
<1> QED
  BY <1>1, EventLogAssumption, FS_Subset, FS_CardinalityType

(* A task that is released goes back to a well-typed idle state.            *)
LEMMA IdleType == Idle \in TaskState
  BY DEF TaskState

LEMMA TypeInit == Init => TypeOK
<1> SUFFICES ASSUME Init PROVE TypeOK
  OBVIOUS
<1> USE EventLogAssumption DEF Init
<1>1. FileType
  <2>1. repair \in [pc : {"none", "scanned"}, keep : Nat,
                    by : {"none", "create", "recover"}]
    BY DEF NoRepair
  <2>2. torn \in BOOLEAN
    OBVIOUS
  <2> QED
    BY <2>1, <2>2 DEF FileType
<1>2. WriterType
  <2>1. failed \in BOOLEAN
    OBVIOUS
  <2> QED
    BY <2>1 DEF WriterType
<1>3. TaskType
  <2>1. closed \in BOOLEAN
    OBVIOUS
  <2> QED
    BY <2>1, IdleType DEF TaskType
<1>4. HistoryType
  BY DEF HistoryType
<1> QED
  BY <1>1, <1>2, <1>3, <1>4 DEF TypeOK

(* RunStore::create hands out a well-typed store.                           *)
LEMMA OpenStoreType ==
  ASSUME TypeOK, NEW n \in Nat, OpenStore(n)
  PROVE  WriterType' /\ TaskType' /\ HistoryType' /\ opens' \in Nat
<1>1. WriterType'
  <2>1. failed' \in BOOLEAN
    BY DEF OpenStore
  <2> QED
    BY <2>1 DEF OpenStore, WriterType
<1>2. TaskType'
  <2>1. closed' \in BOOLEAN
    BY DEF OpenStore
  <2> QED
    BY <2>1, IdleType DEF OpenStore, TypeOK, TaskType
<1>3. HistoryType'
  BY DEF OpenStore, TypeOK, HistoryType
<1>4. opens' \in Nat
  BY EventLogAssumption DEF OpenStore, TypeOK, FileType
<1> QED
  BY <1>1, <1>2, <1>3, <1>4

(* A stopping writer releases its callers and counts drops.                 *)
LEMMA StopWriterType ==
  ASSUME TypeOK, NEW also, StopWriter(also)
  PROVE  /\ wpc' = "stopped" /\ deferred' = <<>> /\ queue' = <<>>
         /\ drops' \in Nat
         /\ caller' \in [Callers -> TaskState]
<1>1. drops' \in Nat
  BY AppendingNat DEF StopWriter, TypeOK, HistoryType
<1> QED
  BY <1>1, IdleType DEF StopWriter, TypeOK, TaskType

(* The commands the writer can take are well typed.                         *)
LEMMA PendingType ==
  ASSUME TypeOK
  PROVE  /\ Pending \in Seq(Command)
         /\ Pending # <<>> => Head(Pending) \in Command
  BY DEF TypeOK, TaskType, Pending

LEMMA TakeType ==
  ASSUME TypeOK, NEW op, Take(op)
  PROVE  deferred' \in Seq(Command) /\ queue' \in Seq(Command)
<1>1. deferred = <<>> => queue # <<>>
  BY DEF Take, Pending, TypeOK, TaskType
<1> QED
  BY <1>1 DEF Take, TypeOK, TaskType

(* The lines of the next physical record.                                   *)
LEMMA BlockLinesType ==
  ASSUME TypeOK, done < Len(batch)
  PROVE  /\ BlockSize \in 1..(Len(batch) - done)
         /\ BlockLines \in Seq(Line) /\ Len(BlockLines) = BlockSize
         /\ \A i \in 1..BlockSize :
              BlockLines[i] = [seq |-> wseq + done + i - 1, ev |-> batch[done + i].ev]
<1>1. BlockSize \in 1..(Len(batch) - done)
  BY EventLogAssumption DEF BlockSize, Min2, TypeOK, WriterType
<1>2. \A i \in 1..BlockSize :
        [seq |-> wseq + done + i - 1, ev |-> batch[done + i].ev] \in Line
  <2> SUFFICES ASSUME NEW i \in 1..BlockSize
               PROVE  [seq |-> wseq + done + i - 1, ev |-> batch[done + i].ev] \in Line
    OBVIOUS
  <2>1. done + i \in 1..Len(batch)
    BY <1>1 DEF TypeOK, WriterType
  <2>2. batch[done + i].ev \in Event
    <3>1. batch[done + i] \in Entry
      BY <2>1 DEF TypeOK, WriterType
    <3> QED
      BY <3>1 DEF Entry
  <2>3. wseq + done + i - 1 \in Nat
    <3>1. wseq \in Nat /\ wseq >= 1
      BY DEF TypeOK, WriterType
    <3>2. done \in Nat /\ i \in Nat
      BY <1>1 DEF TypeOK, WriterType
    <3> QED
      BY <3>1, <3>2
  <2> QED
    BY <2>2, <2>3 DEF Line
<1> QED
  BY <1>1, <1>2 DEF BlockLines

LEMMA TypeStep == TypeOK /\ [Next]_vars => TypeOK'
<1> SUFFICES ASSUME TypeOK, [Next]_vars PROVE TypeOK'
  OBVIOUS
<1> USE DEF fileVars, writerVars, taskVars, history
<1>1. CASE Create
  <2>1. OpenStore(Len(file)) /\ Len(file) \in Nat
    BY <1>1 DEF Create, TypeOK, FileType
  <2>2. WriterType' /\ TaskType' /\ HistoryType' /\ opens' \in Nat
    BY <1>1, <2>1, OpenStoreType
  <2>3. FileType'
    BY <1>1, <2>2 DEF Create, TypeOK, FileType
  <2> QED
    BY <2>1, <2>2, <2>3 DEF TypeOK
<1>2. ASSUME NEW by \in {"create", "recover"}, RepairScan(by) PROVE TypeOK'
  <2>1. FileType'
    BY <1>2 DEF RepairScan, TypeOK, FileType
  <2> QED
    BY <1>2, <2>1 DEF RepairScan, TypeOK, WriterType, TaskType, HistoryType
<1>3. CASE RepairTruncate
  <2> DEFINE n == Min2(repair.keep, Len(file))
  <2>1. n \in 0..Len(file) /\ repair.keep \in Nat
    BY DEF Min2, TypeOK, FileType
  <2>2. file' \in Seq(Line) /\ Len(file') = n /\ synced' = n
    BY <1>3, <2>1 DEF RepairTruncate, TypeOK, FileType
  <2>3. torn' \in BOOLEAN
    BY <1>3 DEF RepairTruncate
  <2>4. repair' \in [pc : {"none", "scanned"}, keep : Nat,
                     by : {"none", "create", "recover"}]
    BY <1>3 DEF RepairTruncate, NoRepair
  <2>5. WriterType' /\ TaskType' /\ HistoryType' /\ opens' \in Nat
    <3>1. CASE OpenStore(repair.keep)
      BY <3>1, <2>1, OpenStoreType
    <3>2. CASE UNCHANGED <<opens, writerVars, taskVars, history>>
      BY <3>2 DEF TypeOK, FileType, WriterType, TaskType, HistoryType
    <3> QED
      BY <1>3, <3>1, <3>2 DEF RepairTruncate
  <2> QED
    BY <2>1, <2>2, <2>3, <2>4, <2>5 DEF TypeOK, FileType
<1>4. ASSUME NEW c \in Callers, AppendCall(c) PROVE TypeOK'
  <2>1. caller' \in [Callers -> TaskState]
    BY <1>4, EventLogAssumption DEF AppendCall, TypeOK, TaskType, TaskState, Event
  <2>2. TaskType'
    BY <1>4, <2>1, EventLogAssumption DEF AppendCall, TypeOK, TaskType
  <2>3. HistoryType'
    BY <1>4 DEF AppendCall, TypeOK, HistoryType
  <2> QED
    BY <1>4, <2>2, <2>3 DEF AppendCall, TypeOK, FileType, WriterType
<1>5. ASSUME NEW c \in Callers, FlushCall(c) PROVE TypeOK'
  <2>1. caller' \in [Callers -> TaskState]
    BY <1>5, EventLogAssumption DEF FlushCall, TypeOK, TaskType, TaskState, Event, NoEvent
  <2>2. TaskType'
    BY <1>5, <2>1, EventLogAssumption DEF FlushCall, TypeOK, TaskType
  <2> QED
    BY <1>5, <2>2 DEF FlushCall, TypeOK, FileType, WriterType, HistoryType
<1>6. ASSUME NEW c \in Callers, ShutdownCall(c) PROVE TypeOK'
  <2>1. caller' \in [Callers -> TaskState]
    BY <1>6, EventLogAssumption DEF ShutdownCall, TypeOK, TaskType, TaskState, Event, NoEvent
  <2>2. closed' \in BOOLEAN
    BY <1>6 DEF ShutdownCall
  <2>3. TaskType'
    BY <1>6, <2>1, <2>2 DEF ShutdownCall, TypeOK, TaskType
  <2> QED
    BY <1>6, <2>3 DEF ShutdownCall, TypeOK, FileType, WriterType, HistoryType
<1>7. ASSUME NEW c \in Callers, Send(c) PROVE TypeOK'
  <2>1. caller' \in [Callers -> TaskState]
    BY <1>7 DEF Send, TypeOK, TaskType, TaskState, Idle
  <2>2. queue' \in Seq(Command)
    <3>1. [op |-> caller[c].op, caller |-> c, ev |-> caller[c].ev] \in Command
      BY <1>7 DEF Send, TypeOK, TaskType, TaskState, Idle, Command
    <3> QED
      BY <1>7, <3>1 DEF Send, TypeOK, TaskType
  <2>3. TaskType'
    BY <1>7, <2>1, <2>2 DEF Send, TypeOK, TaskType
  <2> QED
    BY <1>7, <2>3 DEF Send, TypeOK, FileType, WriterType, HistoryType
<1>8. ASSUME NEW c \in Callers, SendFails(c) PROVE TypeOK'
  <2>1. caller' \in [Callers -> TaskState]
    BY <1>8, IdleType DEF SendFails, TypeOK, TaskType
  <2>2. TaskType'
    BY <1>8, <2>1 DEF SendFails, TypeOK, TaskType
  <2>3. HistoryType'
    BY <1>8 DEF SendFails, TypeOK, HistoryType
  <2> QED
    BY <1>8, <2>2, <2>3 DEF SendFails, TypeOK, FileType, WriterType
<1>9. CASE WriterStart
  <2>1. WriterType'
    BY <1>9 DEF WriterStart, TypeOK, WriterType
  <2> QED
    BY <1>9, <2>1 DEF WriterStart, TypeOK, FileType, TaskType, HistoryType
<1>10. CASE WriterStartFails
  <2>1. StopWriter({})
    BY <1>10 DEF WriterStartFails
  <2>2. wpc' = "stopped" /\ deferred' = <<>> /\ queue' = <<>> /\ drops' \in Nat
    BY <1>10, <2>1, StopWriterType
  <2>3. caller' \in [Callers -> TaskState]
    BY <1>10, <2>1, StopWriterType
  <2>4. TaskType'
    BY <1>10, <2>2, <2>3 DEF WriterStartFails, TypeOK, TaskType
  <2>5. HistoryType'
    BY <1>10, <2>2 DEF WriterStartFails, TypeOK, HistoryType
  <2>6. torn' \in BOOLEAN
    BY <1>10 DEF WriterStartFails, TypeOK, FileType
  <2>7. WriterType'
    BY <1>10, <2>2 DEF WriterStartFails, TypeOK, WriterType
  <2> QED
    BY <1>10, <2>4, <2>5, <2>7 DEF WriterStartFails, TypeOK, FileType
<1>11. CASE TakeAppend
  <2>1. Take("append") /\ Pending # <<>>
    BY <1>11 DEF TakeAppend, Take
  <2>2. TaskType'
    BY <1>11, <2>1, TakeType DEF TakeAppend, TypeOK, TaskType
  <2>3. EntryOf(Head(Pending)) \in Entry
    BY <1>11, <2>1, PendingType DEF EntryOf, Entry, Command
  <2>4. failed' \in BOOLEAN
    BY <1>11 DEF TakeAppend
  <2>5. WriterType'
    BY <1>11, <2>3, <2>4 DEF TakeAppend, TypeOK, WriterType
  <2> QED
    BY <1>11, <2>2, <2>5 DEF TakeAppend, TypeOK, FileType, HistoryType
<1>12. CASE DrainAppend
  <2>1. Head(queue) \in Command /\ queue' \in Seq(Command)
    BY <1>12 DEF DrainAppend, TypeOK, TaskType
  <2>2. EntryOf(Head(queue)) \in Entry
    BY <1>12, <2>1 DEF EntryOf, Entry, Command
  <2>3. batch' \in Seq(Entry) /\ Len(batch') = Len(batch) + 1
    BY <1>12, <2>2 DEF DrainAppend, TypeOK, WriterType
  <2>4. WriterType'
    BY <1>12, <2>3 DEF DrainAppend, TypeOK, WriterType
  <2>5. TaskType'
    BY <1>12, <2>1 DEF DrainAppend, TypeOK, TaskType
  <2> QED
    BY <1>12, <2>4, <2>5 DEF DrainAppend, TypeOK, FileType, HistoryType
<1>13. CASE DrainEnd
  <2>1. deferred' \in Seq(Command) /\ queue' \in Seq(Command)
    <3>1. CASE queue = <<>>
      BY <1>13, <3>1 DEF DrainEnd, TypeOK, TaskType
    <3>2. CASE queue # <<>>
      <4>1. Head(queue) \in Command /\ Tail(queue) \in Seq(Command)
        BY <3>2 DEF TypeOK, TaskType
      <4>2. deferred' = <<Head(queue)>> /\ queue' = Tail(queue)
        BY <1>13, <3>2 DEF DrainEnd
      <4> QED
        BY <4>1, <4>2
    <3> QED
      BY <3>1, <3>2
  <2>2. WriterType'
    BY <1>13 DEF DrainEnd, TypeOK, WriterType
  <2>3. TaskType'
    BY <1>13, <2>1 DEF DrainEnd, TypeOK, TaskType
  <2> QED
    BY <1>13, <2>2, <2>3 DEF DrainEnd, TypeOK, FileType, HistoryType
<1>14. CASE WriteBody
  <2>1. torn' \in BOOLEAN
    BY <1>14 DEF WriteBody
  <2>2. FileType'
    BY <1>14, <2>1 DEF WriteBody, TypeOK, FileType
  <2>3. WriterType'
    BY <1>14 DEF WriteBody, TypeOK, WriterType
  <2> QED
    BY <1>14, <2>2, <2>3 DEF WriteBody, TypeOK, TaskType, HistoryType
<1>15. CASE WriteNewline
  <2>1. torn' \in BOOLEAN
    BY <1>15 DEF WriteNewline
  <2>2. done < Len(batch)
    BY <1>15 DEF WriteNewline, TypeOK, WriterType
  <2>3. Junk \in Line
    BY EventLogAssumption DEF Junk, Line, NoEvent, Event
  <2>4. file' \in Seq(Line) /\ Len(file') >= Len(file)
    BY <1>15, <2>2, <2>3, BlockLinesType DEF WriteNewline, TypeOK, FileType
  <2>5. FileType'
    BY <1>15, <2>1, <2>4 DEF WriteNewline, TypeOK, FileType
  <2>6. WriterType'
    BY <1>15, <2>2, BlockLinesType DEF WriteNewline, TypeOK, WriterType
  <2> QED
    BY <1>15, <2>5, <2>6 DEF WriteNewline, TypeOK, TaskType, HistoryType
<1>16. CASE WriteFails
  <2>1. torn' \in BOOLEAN
    BY <1>16 DEF WriteFails, TypeOK, FileType
  <2>2. failed' \in BOOLEAN
    BY <1>16 DEF WriteFails
  <2>3. FileType'
    BY <1>16, <2>1 DEF WriteFails, TypeOK, FileType
  <2>4. WriterType'
    BY <1>16, <2>2 DEF WriteFails, TypeOK, WriterType
  <2> QED
    BY <1>16, <2>3, <2>4 DEF WriteFails, TypeOK, TaskType, HistoryType
<1>17. CASE BatchWritten
  <2>1. WriterType'
    BY <1>17 DEF BatchWritten, TypeOK, WriterType
  <2> QED
    BY <1>17, <2>1 DEF BatchWritten, TypeOK, FileType, TaskType, HistoryType
<1>18. CASE SyncBatch
  <2> USE <1>18 DEF SyncBatch, AnswerBatch
  <2>1. synced' \in 0..Len(file') /\ UNCHANGED <<file, torn, repair, opens>>
    BY DEF TypeOK, FileType
  <2>2. FileType'
    BY <2>1 DEF TypeOK, FileType
  <2>3. failed' \in BOOLEAN
    OBVIOUS
  <2>4. wpc' \in {"idle", "stopped"} /\ wseq' \in Nat \ {0}
    BY DEF TypeOK, WriterType
  <2>5. WriterType'
    BY <2>3, <2>4 DEF WriterType
  <2>6. caller' \in [Callers -> TaskState]
    BY IdleType DEF TypeOK, TaskType
  <2>7. TaskType'
    BY <2>6 DEF TypeOK, TaskType
  <2>8. \A i \in 1..done : [caller |-> batch[i].caller, ev |-> batch[i].ev,
                             seq |-> wseq + i - 1]
                             \in [caller : Callers, ev : Event, seq : Nat \ {0}]
    <3> SUFFICES ASSUME NEW i \in 1..done
                 PROVE  [caller |-> batch[i].caller, ev |-> batch[i].ev,
                         seq |-> wseq + i - 1]
                             \in [caller : Callers, ev : Event, seq : Nat \ {0}]
      OBVIOUS
    <3>1. batch[i] \in Entry
      BY DEF TypeOK, WriterType
    <3>2. wseq + i - 1 \in Nat \ {0}
      BY DEF TypeOK, WriterType
    <3> QED
      BY <3>1, <3>2 DEF Entry
  <2>9. HistoryType'
    BY <2>8, AppendingNat DEF TypeOK, HistoryType, WriterType
  <2> QED
    BY <2>2, <2>5, <2>7, <2>9 DEF TypeOK
<1>19. CASE SyncBatchFails
  <2>1. StopWriter(BatchCallers(1, Len(batch)))
    BY <1>19 DEF SyncBatchFails
  <2>2. wpc' = "stopped" /\ deferred' = <<>> /\ queue' = <<>> /\ drops' \in Nat
    BY <1>19, <2>1, StopWriterType
  <2>3. caller' \in [Callers -> TaskState]
    BY <1>19, <2>1, StopWriterType
  <2>4. TaskType'
    BY <1>19, <2>2, <2>3 DEF SyncBatchFails, TypeOK, TaskType
  <2>5. HistoryType'
    BY <1>19, <2>2 DEF SyncBatchFails, TypeOK, HistoryType
  <2>6. failed' \in BOOLEAN
    BY <1>19 DEF SyncBatchFails
  <2>7. WriterType'
    BY <1>19, <2>2, <2>6 DEF SyncBatchFails, TypeOK, WriterType
  <2> QED
    BY <1>19, <2>4, <2>5, <2>7 DEF SyncBatchFails, TypeOK, FileType
<1>20. CASE Flush
  <2>1. Take("flush")
    BY <1>20 DEF Flush
  <2>2. FileType'
    BY <1>20 DEF Flush, TypeOK, FileType
  <2>3. caller' \in [Callers -> TaskState]
    BY <1>20, IdleType DEF Flush, TypeOK, TaskType
  <2>4. TaskType'
    BY <1>20, <2>1, <2>3, TakeType DEF Flush, TypeOK, TaskType
  <2>5. HistoryType'
    BY <1>20 DEF Flush, TypeOK, WriterType, HistoryType
  <2> QED
    BY <1>20, <2>2, <2>4, <2>5 DEF Flush, TypeOK, WriterType
<1>21. CASE Shutdown
  <2>1. StopWriter({})
    BY <1>21 DEF Shutdown
  <2>2. wpc' = "stopped" /\ deferred' = <<>> /\ queue' = <<>> /\ drops' \in Nat
    BY <1>21, <2>1, StopWriterType
  <2>3. caller' \in [Callers -> TaskState]
    BY <1>21, <2>1, StopWriterType
  <2>4. TaskType'
    BY <1>21, <2>2, <2>3 DEF Shutdown, TypeOK, TaskType
  <2>5. HistoryType'
    BY <1>21, <2>2 DEF Shutdown, TypeOK, HistoryType
  <2>6. FileType'
    BY <1>21 DEF Shutdown, TypeOK, FileType
  <2>7. WriterType'
    BY <1>21, <2>2 DEF Shutdown, TypeOK, WriterType
  <2> QED
    BY <1>21, <2>4, <2>5, <2>6, <2>7 DEF Shutdown, TypeOK
<1>22. CASE CommandSyncFails
  <2>1. StopWriter({})
    BY <1>22 DEF CommandSyncFails
  <2>2. wpc' = "stopped" /\ deferred' = <<>> /\ queue' = <<>> /\ drops' \in Nat
    BY <1>22, <2>1, StopWriterType
  <2>3. caller' \in [Callers -> TaskState]
    BY <1>22, <2>1, StopWriterType
  <2>4. TaskType'
    BY <1>22, <2>2, <2>3 DEF CommandSyncFails, TypeOK, TaskType
  <2>5. HistoryType'
    BY <1>22, <2>2 DEF CommandSyncFails, TypeOK, HistoryType
  <2>6. WriterType'
    BY <1>22, <2>2 DEF CommandSyncFails, TypeOK, WriterType
  <2> QED
    BY <1>22, <2>4, <2>5, <2>6 DEF CommandSyncFails, TypeOK, FileType
<1>23. CASE HandlesDropped
  <2>1. closed' \in BOOLEAN
    BY <1>23 DEF HandlesDropped
  <2>2. FileType'
    BY <1>23 DEF HandlesDropped, TypeOK, FileType
  <2>3. WriterType'
    BY <1>23 DEF HandlesDropped, TypeOK, WriterType
  <2>4. TaskType'
    BY <1>23, <2>1 DEF HandlesDropped, TypeOK, TaskType
  <2> QED
    BY <1>23, <2>2, <2>3, <2>4 DEF HandlesDropped, TypeOK, HistoryType
<1>24. ASSUME ProcessGone PROVE WriterType' /\ TaskType' /\ HistoryType' /\ opens' \in Nat
  <2> USE <1>24 DEF ProcessGone
  <2>1. failed' \in BOOLEAN /\ closed' \in BOOLEAN
    OBVIOUS
  <2>2. WriterType' /\ opens' \in Nat
    BY <2>1 DEF TypeOK, WriterType, FileType
  <2>3. TaskType'
    BY <2>1, IdleType DEF TypeOK, TaskType
  <2> QED
    BY <2>2, <2>3 DEF TypeOK, HistoryType
<1>25. NoRepair \in [pc : {"none", "scanned"}, keep : Nat,
                    by : {"none", "create", "recover"}]
  BY DEF NoRepair
<1>26. CASE ProcessExit
  BY <1>24, <1>25, <1>26 DEF ProcessExit, TypeOK, FileType
<1>27. CASE PowerLoss
  <2>1. PICK k \in synced..Len(file) :
          /\ file' = SubSeq(file, 1, k) /\ synced' = k
          /\ torn' \in IF k < Len(file) \/ torn THEN BOOLEAN ELSE {FALSE}
    BY <1>27 DEF PowerLoss
  <2>2. torn' \in BOOLEAN
    BY <2>1
  <2>3. file' \in Seq(Line) /\ Len(file') = k /\ k \in Nat
    BY <2>1 DEF TypeOK, FileType
  <2>4. FileType'
    BY <1>27, <1>24, <1>25, <2>1, <2>2, <2>3 DEF PowerLoss, FileType
  <2> QED
    BY <1>27, <1>24, <2>4 DEF PowerLoss, TypeOK
<1>28. CASE UNCHANGED vars
  BY <1>28 DEF vars, TypeOK, FileType, WriterType, TaskType, HistoryType
<1> QED
  BY <1>1, <1>2, <1>3, <1>4, <1>5, <1>6, <1>7, <1>8, <1>9, <1>10, <1>11, <1>12,
     <1>13, <1>14, <1>15, <1>16, <1>17, <1>18, <1>19, <1>20, <1>21, <1>22,
     <1>23, <1>26, <1>27, <1>28
  DEF Next, CallerStep, WriterStep

(* Every reachable state is well typed.                                     *)
THEOREM TypeCorrect == Spec => []TypeOK
  BY TypeInit, TypeStep, PTL DEF Spec

-----------------------------------------------------------------------------
(* Durability.  `iorec recover` is run on a finished run, as LiveRepair =   *)
(* FALSE says; the invariant does not survive a repair beside a writer.     *)

LEMMA WriterAtFileInit == Init => WriterAtFile
  BY EventLogAssumption
  DEF Init, WriterAtFile, Readable, AckedDurable, WithinBudget, NoRepair

LEMMA WriterAtFileStep ==
  ASSUME LiveRepair = FALSE, TypeOK, TypeOK', WriterAtFile, [Next]_vars
  PROVE  WriterAtFile'
<1> USE DEF fileVars, writerVars, taskVars, history
<1> DEFINE core == <<file, torn, synced, repair, wpc, wseq, batch, done, failed,
                     acked>>
<1>a. \A a \in acked : a.seq \in 1..synced /\ a.seq \in 1..Len(file)
  <2>1. \A a \in acked : a.seq \in Nat \ {0}
    BY DEF TypeOK, HistoryType
  <2>2. \A a \in acked : a.seq <= synced
    BY DEF WriterAtFile, AckedDurable
  <2> QED
    BY <2>1, <2>2 DEF TypeOK, FileType
<1>1. ASSUME UNCHANGED core PROVE WriterAtFile'
  BY <1>1 DEF WriterAtFile, Readable, AckedDurable, WithinBudget, FitsBudget,
              BlockSize
<1>2. ASSUME NEW c \in Callers, CallerStep(c) PROVE WriterAtFile'
  <2>1. UNCHANGED core
    BY <1>2 DEF CallerStep, AppendCall, FlushCall, ShutdownCall, Send, SendFails
  <2> QED
    BY <1>1, <2>1
<1>3. ASSUME UNCHANGED <<file, synced, acked>>
      PROVE  (Readable(file) /\ AckedDurable /\ WithinBudget)'
  BY <1>3 DEF WriterAtFile, Readable, AckedDurable, WithinBudget
<1>4. ASSUME wpc' \in {"none", "stopped"}, repair' \in {repair, NoRepair},
             repair'.pc = "scanned" => wpc' = "none",
             UNCHANGED file, (Readable(file) /\ AckedDurable /\ WithinBudget)'
      PROVE  WriterAtFile'
  BY <1>4 DEF WriterAtFile, NoRepair
<1>5. CASE Create
  BY <1>5, <1>3 DEF Create, OpenStore, WriterAtFile
<1>6. ASSUME NEW by \in {"create", "recover"}, RepairScan(by)
      PROVE  WriterAtFile'
  BY <1>6, <1>3 DEF RepairScan, WriterAtFile
<1>7. CASE RepairTruncate
  <2>1. wpc = "none" /\ repair.keep = Len(file)
    BY <1>7 DEF RepairTruncate, WriterAtFile
  <2>2. file' = file /\ synced' = Len(file) /\ ~torn' /\ repair' = NoRepair
    BY <1>7, <2>1 DEF RepairTruncate, Min2, TypeOK, FileType
  <2>3. acked' = acked
    BY <1>7 DEF RepairTruncate, OpenStore
  <2>4. (Readable(file) /\ AckedDurable /\ WithinBudget)'
    BY <2>2, <2>3 DEF WriterAtFile, Readable, AckedDurable, WithinBudget,
                      TypeOK, FileType, HistoryType
  <2>5. \/ wpc' = "none"
        \/ wpc' = "starting" /\ wseq' = Len(file) + 1
    BY <1>7, <2>1 DEF RepairTruncate, OpenStore
  <2> QED
    BY <2>2, <2>4, <2>5 DEF WriterAtFile, NoRepair, TypeOK, FileType
<1>8. CASE WriterStart
  BY <1>8, <1>3 DEF WriterStart, WriterAtFile
<1>9. CASE WriterStartFails
  BY <1>9, <1>3, <1>4 DEF WriterStartFails, StopWriter, WriterAtFile
<1>10. CASE TakeAppend
  BY <1>10, <1>3 DEF TakeAppend, Take, WriterAtFile
<1>11. CASE DrainAppend
  BY <1>11, <1>3 DEF DrainAppend, WriterAtFile
<1>12. CASE DrainEnd
  BY <1>12, <1>3 DEF DrainEnd, WriterAtFile, TypeOK, FileType, WriterType
<1>13. CASE WriteBody
  BY <1>13, <1>3
  DEF WriteBody, WriterAtFile, FitsBudget, BlockSize, Readable, AckedDurable, WithinBudget
<1>14. CASE WriteNewline
  <2>1. torn /\ done < Len(batch) /\ FitsBudget /\ Len(file) = wseq - 1 + done
    BY <1>14 DEF WriteNewline, WriterAtFile
  <2>2. file' = file \o BlockLines /\ done' = done + BlockSize
    BY <1>14, <2>1 DEF WriteNewline
  <2>a. /\ file \in Seq(Line) /\ BlockLines \in Seq(Line)
        /\ Len(BlockLines) = BlockSize /\ BlockSize \in Nat
        /\ wseq \in Nat /\ done \in Nat /\ Len(file) \in Nat /\ batch \in Seq(Entry)
    BY <2>1, BlockLinesType DEF TypeOK, FileType, WriterType
  <2>b. Len(file') = Len(file) + BlockSize
    BY <2>2, <2>a
  <2>3. Len(file') = wseq - 1 + done'
    BY <2>1, <2>2, <2>a, <2>b
  <2>4. \A i \in 1..Len(file) : file'[i] = file[i]
    BY <2>2, <2>a
  <2>5. \A i \in 1..BlockSize : file'[Len(file) + i] =
          [seq |-> wseq + done + i - 1, ev |-> batch[done + i].ev]
    <3>1. \A i \in 1..BlockSize : file'[Len(file) + i] = BlockLines[i]
      BY <2>2, <2>a
    <3> QED
      BY <3>1, <2>1, BlockLinesType
  <2>6. Readable(file)'
    <3> SUFFICES ASSUME NEW i \in 1..Len(file') PROVE file'[i].seq = i
      BY DEF Readable
    <3>1. CASE i <= Len(file)
      BY <3>1, <2>4 DEF WriterAtFile, Readable, TypeOK, FileType
    <3>2. CASE i > Len(file)
      <4>1. PICK j \in 1..BlockSize : i = Len(file) + j
        <5>1. i - Len(file) \in 1..BlockSize /\ i = Len(file) + (i - Len(file))
          BY <3>2, <2>a, <2>b
        <5> QED
          BY <5>1
      <4>2. file'[i].seq = wseq + done + j - 1
        <5>1. file'[Len(file) + j] =
                [seq |-> wseq + done + j - 1, ev |-> batch[done + j].ev]
          BY <2>5
        <5> QED
          BY <4>1, <5>1
      <4> QED
        BY <4>1, <4>2, <2>1, <2>a
    <3> QED
      BY <3>1, <3>2, <2>a, <2>b
  <2>7. AckedDurable'
    <3>1. acked' = acked /\ synced' = synced
      BY <1>14 DEF WriteNewline
    <3> QED
      BY <3>1, <2>4, <1>a DEF WriterAtFile, AckedDurable
  <2>8. WithinBudget'
    BY <2>1, <2>2, <2>3, <2>a, EventLogAssumption DEF FitsBudget, WithinBudget
  <2>9. \A i \in 1..done' : file'[wseq - 1 + i].ev = batch[i].ev
    <3> SUFFICES ASSUME NEW i \in 1..done' PROVE file'[wseq - 1 + i].ev = batch[i].ev
      OBVIOUS
    <3>1. CASE i <= done
      <4>1. wseq - 1 + i \in 1..Len(file)
        BY <3>1, <2>1 DEF TypeOK, WriterType, FileType
      <4> QED
        BY <1>14, <3>1, <4>1, <2>4 DEF WriteNewline, WriterAtFile, TypeOK, WriterType
    <3>2. CASE i > done
      <4>1. PICK j \in 1..BlockSize : i = done + j
        <5>1. i - done \in 1..BlockSize /\ i = done + (i - done)
          BY <3>2, <2>2, <2>a
        <5> QED
          BY <5>1
      <4>2. file'[Len(file) + j].ev = batch[i].ev
        <5>1. file'[Len(file) + j] =
                [seq |-> wseq + done + j - 1, ev |-> batch[done + j].ev]
          BY <2>5
        <5> QED
          BY <4>1, <5>1
      <4>3. Len(file) + j = wseq - 1 + i
        BY <4>1, <2>1, <2>a
      <4> QED
        BY <4>2, <4>3
    <3> QED
      BY <3>1, <3>2 DEF TypeOK, WriterType
  <2> QED
    BY <1>14, <2>3, <2>6, <2>7, <2>8, <2>9 DEF WriteNewline, WriterAtFile
<1>15. CASE WriteFails
  BY <1>15, <1>3 DEF WriteFails, WriterAtFile
<1>16. CASE BatchWritten
  BY <1>16, <1>3 DEF BatchWritten, WriterAtFile
<1>17. CASE SyncBatch
  <2> USE <1>17 DEF SyncBatch, AnswerBatch
  <2>1. /\ Len(file) = wseq - 1 + done
        /\ \A i \in 1..done : file[wseq - 1 + i].ev = batch[i].ev
    BY DEF WriterAtFile
  <2>2. synced' = IF done > 0 THEN Len(file) ELSE synced
    OBVIOUS
  <2>3. synced <= synced' /\ file' = file
    BY DEF TypeOK, FileType
  <2>4. ASSUME NEW i \in 1..done
        PROVE  /\ wseq + i - 1 <= synced'
               /\ file[wseq + i - 1] = [seq |-> wseq + i - 1, ev |-> batch[i].ev]
    <3>1. wseq + i - 1 \in 1..Len(file) /\ wseq + i - 1 = wseq - 1 + i /\ done > 0
      BY <2>1 DEF TypeOK, WriterType
    <3>2. file[wseq + i - 1] \in Line
      BY <3>1 DEF TypeOK, FileType
    <3>3. file[wseq + i - 1].seq = wseq + i - 1
      BY <3>1 DEF WriterAtFile, Readable
    <3>4. file[wseq + i - 1].ev = batch[i].ev
      BY <3>1, <2>1
    <3> QED
      BY <3>1, <3>2, <3>3, <3>4, <2>2 DEF Line
  <2>5. AckedDurable'
    <3> SUFFICES ASSUME NEW a \in acked'
                 PROVE  a.seq <= synced' /\ file[a.seq] = [seq |-> a.seq, ev |-> a.ev]
      BY <2>3 DEF AckedDurable
    <3>1. CASE a \in acked
      <4>1. a.seq <= synced /\ file[a.seq] = [seq |-> a.seq, ev |-> a.ev]
        BY <3>1 DEF WriterAtFile, AckedDurable
      <4>2. a.seq \in Nat
        BY <3>1 DEF TypeOK, HistoryType
      <4>3. synced \in Nat /\ synced' \in Nat
        BY DEF TypeOK, FileType
      <4> QED
        BY <4>1, <4>2, <4>3, <2>3
    <3>2. CASE a \notin acked
      <4>1. PICK i \in 1..done : a = [caller |-> batch[i].caller,
                                      ev |-> batch[i].ev, seq |-> wseq + i - 1]
        BY <3>2
      <4>2. a.seq = wseq + i - 1 /\ a.ev = batch[i].ev
        BY <4>1
      <4> QED
        BY <4>2, <2>4
    <3> QED
      BY <3>1, <3>2
  <2>6. Readable(file)' /\ WithinBudget'
    BY <2>3 DEF WriterAtFile, Readable, WithinBudget
  <2>7. \/ wpc' = "stopped"
        \/ wpc' = "idle" /\ ~failed
    OBVIOUS
  <2>8. wpc' = "idle" => Len(file') = wseq' - 1 /\ ~torn'
    BY <2>1, <2>7 DEF WriterAtFile, TypeOK, WriterType
  <2>9. repair' = repair /\ repair.pc # "scanned"
    BY DEF WriterAtFile
  <2> QED
    BY <2>5, <2>6, <2>7, <2>8, <2>9 DEF WriterAtFile
<1>18. CASE SyncBatchFails
  BY <1>18, <1>3, <1>4 DEF SyncBatchFails, StopWriter, WriterAtFile
<1>19. ASSUME synced' \in {synced, Len(file)}, UNCHANGED <<file, acked>>
       PROVE  (Readable(file) /\ AckedDurable /\ WithinBudget)'
  <2>1. synced <= synced'
    BY <1>19 DEF TypeOK, FileType
  <2> QED
    BY <1>19, <2>1 DEF WriterAtFile, Readable, AckedDurable, WithinBudget,
                       TypeOK, FileType, HistoryType
<1>20. CASE Flush
  BY <1>20, <1>19 DEF Flush, Take, WriterAtFile
<1>21. CASE Shutdown
  BY <1>21, <1>19, <1>4 DEF Shutdown, StopWriter, WriterAtFile
<1>22. CASE CommandSyncFails
  BY <1>22, <1>3, <1>4 DEF CommandSyncFails, StopWriter, WriterAtFile
<1>23. CASE HandlesDropped
  BY <1>23, <1>19, <1>4 DEF HandlesDropped, WriterAtFile
<1>24. CASE ProcessExit
  BY <1>24, <1>3, <1>4 DEF ProcessExit, ProcessGone, WriterAtFile
<1>25. CASE PowerLoss
  <2>1. PICK k \in synced..Len(file) : file' = SubSeq(file, 1, k) /\ synced' = k
    BY <1>25 DEF PowerLoss
  <2>2. k \in 0..Len(file) /\ Len(file') = k /\ \A i \in 1..k : file'[i] = file[i]
    BY <2>1 DEF TypeOK, FileType
  <2>3. Readable(file)' /\ WithinBudget'
    BY <2>2, EventLogAssumption
    DEF WriterAtFile, Readable, WithinBudget, TypeOK, FileType
  <2>4. AckedDurable'
    <3>1. acked' = acked
      BY <1>25 DEF PowerLoss, ProcessGone
    <3>2. \A a \in acked : a.seq \in 1..k
      BY <2>1, <1>a DEF TypeOK, FileType
    <3>3. \A a \in acked : a.seq <= synced' /\ file'[a.seq] = file[a.seq]
      BY <3>2, <2>1, <2>2
    <3> QED
      BY <3>1, <3>3 DEF WriterAtFile, AckedDurable
  <2> QED
    BY <1>25, <2>3, <2>4 DEF PowerLoss, ProcessGone, WriterAtFile, NoRepair
<1>26. CASE UNCHANGED vars
  BY <1>1, <1>26 DEF vars
<1> QED
  BY <1>2, <1>5, <1>6, <1>7, <1>8, <1>9, <1>10, <1>11, <1>12, <1>13, <1>14,
     <1>15, <1>16, <1>17, <1>18, <1>20, <1>21, <1>22, <1>23, <1>24, <1>25, <1>26
  DEF Next, WriterStep

(* The writer's sequence, the lines of its batch and the file always agree. *)
THEOREM WriterInvariant ==
  ASSUME LiveRepair = FALSE
  PROVE  Spec => []WriterAtFile
<1>1. TypeOK /\ TypeOK' /\ WriterAtFile /\ [Next]_vars => WriterAtFile'
  BY WriterAtFileStep
<1> QED
  BY <1>1, TypeCorrect, WriterAtFileInit, PTL DEF Spec

(* append_batch answers Ok only for events that no crash, failed sync or    *)
(* repair will take from the log.                                           *)
THEOREM AcknowledgedIsDurable ==
  ASSUME LiveRepair = FALSE
  PROVE  Spec => []AckedDurable
<1>1. WriterAtFile => AckedDurable
  BY DEF WriterAtFile
<1> QED
  BY <1>1, WriterInvariant, PTL

(* Recovery always meets a contiguous sequence from 1.                      *)
THEOREM LogIsReadable ==
  ASSUME LiveRepair = FALSE
  PROVE  Spec => []LogReadable
<1>1. WriterAtFile => LogReadable
  BY DEF WriterAtFile, LogReadable
<1> QED
  BY <1>1, WriterInvariant, PTL

(* The log never outgrows max_event_storage_bytes.                          *)
THEOREM LogWithinBudget ==
  ASSUME LiveRepair = FALSE
  PROVE  Spec => []WithinBudget
<1>1. WriterAtFile => WithinBudget
  BY DEF WriterAtFile
<1> QED
  BY <1>1, WriterInvariant, PTL

(* A durable_boundary answered Ok stays behind the synced prefix.           *)
THEOREM BoundaryIsDurable ==
  ASSUME LiveRepair = FALSE
  PROVE  Spec => []BoundaryDurable
<1>1. Init => BoundaryDurable
  BY DEF Init, BoundaryDurable
<1>2. ASSUME TypeOK, WriterAtFile, BoundaryDurable, [Next]_vars
      PROVE  BoundaryDurable'
  <2> USE DEF fileVars, writerVars, taskVars, history
  <2>1. CASE Flush
    <3>1. Len(file) = wseq - 1 /\ synced' = Len(file)
      BY <2>1, <1>2 DEF Flush, Take, WriterAtFile
    <3>2. boundary' \in {boundary, wseq - 1}
      BY <2>1 DEF Flush
    <3> QED
      BY <1>2, <3>1, <3>2 DEF BoundaryDurable, TypeOK, FileType, HistoryType
  <2>2. ASSUME boundary' = boundary, synced' \in {synced, Len(file)}
        PROVE  BoundaryDurable'
    BY <2>2, <1>2 DEF BoundaryDurable, TypeOK, FileType, HistoryType
  <2>3. CASE RepairTruncate
    <3>1. boundary' = boundary
      BY <2>3 DEF RepairTruncate, OpenStore
    <3>2. synced' = Len(file)
      BY <2>3, <1>2 DEF RepairTruncate, WriterAtFile, Min2, TypeOK, FileType
    <3> QED
      BY <3>1, <3>2, <2>2
  <2>4. CASE PowerLoss
    <3>1. synced' \in synced..Len(file) /\ boundary' = boundary
      BY <2>4 DEF PowerLoss, ProcessGone
    <3> QED
      BY <1>2, <3>1 DEF BoundaryDurable, TypeOK, FileType, HistoryType
  <2>5. CASE SyncBatch
    <3>1. synced' \in {synced, Len(file)} /\ boundary' = boundary
      BY <2>5 DEF SyncBatch, AnswerBatch
    <3> QED
      BY <3>1, <2>2
  <2>6. CASE Create \/ \E by \in {"create", "recover"} : RepairScan(by)
    <3>1. synced' = synced /\ boundary' = boundary
      BY <2>6 DEF Create, OpenStore, RepairScan
    <3> QED
      BY <3>1, <2>2
  <2>7. ASSUME NEW c \in Callers, CallerStep(c) PROVE BoundaryDurable'
    <3>1. synced' = synced /\ boundary' = boundary
      BY <2>7 DEF CallerStep, AppendCall, FlushCall, ShutdownCall, Send, SendFails
    <3> QED
      BY <3>1, <2>2
  <2>8. CASE \/ WriterStart \/ WriterStartFails \/ TakeAppend \/ DrainAppend
             \/ DrainEnd \/ WriteBody \/ WriteNewline \/ WriteFails \/ BatchWritten
             \/ SyncBatchFails \/ CommandSyncFails \/ ProcessExit
    <3>1. synced' = synced /\ boundary' = boundary
      BY <2>8 DEF WriterStart, WriterStartFails, TakeAppend, DrainAppend,
                  DrainEnd, WriteBody, WriteNewline, WriteFails, BatchWritten,
                  SyncBatchFails, CommandSyncFails, ProcessExit, ProcessGone
    <3> QED
      BY <3>1, <2>2
  <2>9. CASE Shutdown \/ HandlesDropped
    <3>1. synced' \in {synced, Len(file)} /\ boundary' = boundary
      BY <2>9 DEF Shutdown, HandlesDropped
    <3> QED
      BY <3>1, <2>2
  <2>10. CASE UNCHANGED vars
    BY <2>10, <2>2 DEF vars
  <2> QED
    BY <1>2, <2>1, <2>3, <2>4, <2>5, <2>6, <2>7, <2>8, <2>9, <2>10
    DEF Next, WriterStep
<1> QED
  BY <1>1, <1>2, TypeCorrect, WriterInvariant, PTL DEF Spec

(* shutdown answers Ok for a synced log that needs no repair.               *)
THEOREM ShutdownIsClean ==
  ASSUME LiveRepair = FALSE
  PROVE  Spec => CleanShutdown
<1>1. TypeOK /\ WriterAtFile /\ [Next]_vars =>
        [Shutdown => /\ ~torn' /\ Readable(file')
                     /\ Len(file') = wseq - 1 /\ synced' = Len(file')]_vars
  <2> SUFFICES ASSUME TypeOK, WriterAtFile, Shutdown
               PROVE  /\ ~torn' /\ Readable(file')
                      /\ Len(file') = wseq - 1 /\ synced' = Len(file')
    OBVIOUS
  <2> QED
    BY DEF Shutdown, WriterAtFile
<1> QED
  BY <1>1, TypeCorrect, WriterInvariant, PTL DEF Spec, CleanShutdown

(* A repair removes bytes behind the last complete line and no line.        *)
THEOREM RepairKeepsLines ==
  ASSUME LiveRepair = FALSE
  PROVE  Spec => RepairTakesOnlyTail
<1>1. TypeOK /\ WriterAtFile /\ [Next]_vars
        => [RepairTruncate => file' = file]_vars
  <2> SUFFICES ASSUME TypeOK, WriterAtFile, RepairTruncate
               PROVE  file' = file
    OBVIOUS
  <2> QED
    BY DEF RepairTruncate, WriterAtFile, Min2, TypeOK, FileType
<1> QED
  BY <1>1, TypeCorrect, WriterInvariant, PTL DEF Spec, RepairTakesOnlyTail

-----------------------------------------------------------------------------
(* Refinement.                                                              *)

(* The abstract log of a file.                                              *)
LEMMA EventsOfFile ==
  ASSUME NEW f \in Seq(Line)
  PROVE  /\ [i \in 1..Len(f) |-> f[i].ev] \in Seq(Event)
         /\ Len([i \in 1..Len(f) |-> f[i].ev]) = Len(f)
         /\ \A j \in 1..Len(f) : [i \in 1..Len(f) |-> f[i].ev][j] = f[j].ev
<1>1. \A j \in 1..Len(f) : f[j].ev \in Event
  <2>1. \A j \in 1..Len(f) : f[j] \in Line
    OBVIOUS
  <2> QED
    BY <2>1 DEF Line
<1> QED
  BY <1>1

(* Only a write, a sync of a batch and a power loss change the abstract log *)
(* or its acknowledgements.                                                 *)
LEMMA QuietSteps ==
  ASSUME LiveRepair = FALSE, TypeOK, WriterAtFile, [Next]_vars,
         ~WriteNewline, ~SyncBatch, ~PowerLoss
  PROVE  file' = file /\ acked' = acked
<1> USE DEF fileVars, writerVars, taskVars, history
<1>1. CASE RepairTruncate
  BY <1>1 DEF RepairTruncate, OpenStore, WriterAtFile, Min2, TypeOK, FileType
<1>2. CASE Create \/ \E by \in {"create", "recover"} : RepairScan(by)
  BY <1>2 DEF Create, OpenStore, RepairScan
<1>3. CASE \E c \in Callers : CallerStep(c)
  BY <1>3 DEF CallerStep, AppendCall, FlushCall, ShutdownCall, Send, SendFails
<1>4. CASE \/ WriterStart \/ WriterStartFails \/ TakeAppend \/ DrainAppend
           \/ DrainEnd \/ WriteBody \/ WriteFails \/ BatchWritten
           \/ SyncBatchFails \/ CommandSyncFails \/ ProcessExit
           \/ Flush \/ Shutdown \/ HandlesDropped
  BY <1>4 DEF WriterStart, WriterStartFails, TakeAppend, DrainAppend,
              DrainEnd, WriteBody, WriteFails, BatchWritten, SyncBatchFails,
              CommandSyncFails, ProcessExit, ProcessGone, Flush, Shutdown,
              HandlesDropped
<1>5. CASE UNCHANGED vars
  BY <1>5 DEF vars
<1> QED
  BY <1>1, <1>2, <1>3, <1>4, <1>5 DEF Next, WriterStep

LEMMA DurableStep ==
  ASSUME LiveRepair = FALSE, TypeOK, TypeOK', WriterAtFile, WriterAtFile',
         [Next]_vars
  PROVE  [Durable!Next]_(Durable!vars)
<1> USE DEF fileVars, writerVars, taskVars, history
<1> DEFINE Log == [i \in 1..Len(file) |-> file[i].ev]
           Acks == {[ev |-> a.ev, seq |-> a.seq] : a \in acked}
<1>1. /\ file \in Seq(Line) /\ file' \in Seq(Line)
      /\ Len(file) \in Nat /\ Len(file') \in Nat
  BY DEF TypeOK, FileType
<1>2. /\ Log \in Seq(Event) /\ Len(Log) = Len(file)
      /\ \A j \in 1..Len(file) : Log[j] = file[j].ev
  BY <1>1, EventsOfFile
<1>3. /\ Log' \in Seq(Event) /\ Len(Log') = Len(file')
      /\ \A j \in 1..Len(file') : Log'[j] = file'[j].ev
  BY <1>1, EventsOfFile
<1>4. ASSUME \A a \in acked' : a.seq \in Nat \ {0}
      PROVE  \A a \in acked' : a.seq \in 1..Len(file') /\ file'[a.seq].ev = a.ev
  <2>1. \A a \in acked' : a.seq <= synced' /\ file'[a.seq].ev = a.ev
    <3> SUFFICES ASSUME NEW a \in acked'
                 PROVE  a.seq <= synced' /\ file'[a.seq].ev = a.ev
      OBVIOUS
    <3>1. a.seq <= synced' /\ file'[a.seq] = [seq |-> a.seq, ev |-> a.ev]
      BY DEF WriterAtFile, AckedDurable
    <3> QED
      BY <3>1
  <2>2. synced' \in Nat /\ synced' <= Len(file')
    BY <1>1 DEF TypeOK, FileType
  <2> QED
    BY <1>1, <1>4, <2>1, <2>2
<1>5. \A a \in acked' : a.seq \in Nat \ {0}
  BY DEF TypeOK, HistoryType
<1>6. \A b \in Acks' : Durable!Holds(Log', b)
  <2> SUFFICES ASSUME NEW b \in Acks' PROVE Durable!Holds(Log', b)
    OBVIOUS
  <2>1. PICK a \in acked' : b = [ev |-> a.ev, seq |-> a.seq]
    OBVIOUS
  <2>2. b.seq = a.seq /\ b.ev = a.ev
    BY <2>1
  <2>3. a.seq \in 1..Len(file') /\ file'[a.seq].ev = a.ev
    BY <1>4, <1>5
  <2>4. Log'[a.seq] = a.ev
    BY <1>3, <2>3
  <2> HIDE DEF Log
  <2> QED
    BY <1>3, <2>2, <2>3, <2>4 DEF Durable!Holds
<1>7. CASE WriteNewline
  <2>1. Len(file) <= Len(file') /\ \A j \in 1..Len(file) : file'[j] = file[j]
    <3>1. file' = file \o BlockLines /\ BlockLines \in Seq(Line)
      BY <1>7, BlockLinesType DEF WriteNewline, WriterAtFile
    <3> QED
      BY <1>1, <3>1
  <2>2. Durable!Prefix(Log, Log')
    BY <1>1, <1>2, <1>3, <2>1 DEF Durable!Prefix
  <2>3. Acks' = Acks
    BY <1>7 DEF WriteNewline
  <2> QED
    BY <1>3, <2>2, <2>3 DEF Durable!Next, Durable!Grow
<1>8. CASE SyncBatch
  <2>1. Log' = Log
    BY <1>8 DEF SyncBatch, AnswerBatch
  <2>2. acked \subseteq acked'
    BY <1>8 DEF SyncBatch, AnswerBatch
  <2>3. Acks \subseteq Acks'
    BY <2>2
  <2>4. \A b \in Acks' \ Acks : Durable!Holds(Log, b)
    BY <1>6, <2>1
  <2> QED
    BY <2>1, <2>3, <2>4 DEF Durable!Next, Durable!Acknowledge
<1>9. CASE PowerLoss
  <2>1. PICK k \in synced..Len(file) : file' = SubSeq(file, 1, k)
    BY <1>9 DEF PowerLoss
  <2>2. Len(file') <= Len(file) /\ \A j \in 1..Len(file') : file'[j] = file[j]
    BY <1>1, <2>1 DEF TypeOK, FileType
  <2>3. Durable!Prefix(Log', Log)
    BY <1>1, <1>2, <1>3, <2>2 DEF Durable!Prefix
  <2>4. Acks' = Acks
    BY <1>9 DEF PowerLoss, ProcessGone
  <2> QED
    BY <1>3, <1>6, <2>3, <2>4 DEF Durable!Next, Durable!Lose
<1>10. CASE ~WriteNewline /\ ~SyncBatch /\ ~PowerLoss
  <2>1. file' = file /\ acked' = acked
    BY <1>10, QuietSteps
  <2> QED
    BY <2>1 DEF Durable!vars
<1> QED
  BY <1>7, <1>8, <1>9, <1>10

(* Batches, syncs, crashes and repairs implement a log whose acknowledged   *)
(* positions keep their event for good.                                     *)
THEOREM LogImplementsDurableLog ==
  ASSUME LiveRepair = FALSE
  PROVE  Spec => ImplementsDurableLog
<1>1. Init => Durable!Init
  BY DEF Init, Durable!Init
<1>2. TypeOK /\ TypeOK' /\ WriterAtFile /\ WriterAtFile' /\ [Next]_vars
        => [Durable!Next]_(Durable!vars)
  BY DurableStep
<1> QED
  BY <1>1, <1>2, TypeCorrect, WriterInvariant, PTL
  DEF Spec, ImplementsDurableLog, Durable!Spec

=============================================================================
