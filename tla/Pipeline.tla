------------------------------ MODULE Pipeline ------------------------------
(***************************************************************************)
(* The processing stages of one recording, run by the workers of Jobs      *)
(* (iorec-platform/internal/pipeline): decode, assemble and normalize for  *)
(* each batch, resolve for the capture run.                                *)
(*                                                                         *)
(* One model attempt streams over all the batches, so every batch touches  *)
(* its row.  A derived row is modelled by the set of batches whose events  *)
(* it was computed from.  Every stage reads with one statement and writes  *)
(* with another; only normalize and resolve exclude each other, with an    *)
(* advisory lock on the run.                                               *)
(***************************************************************************)
EXTENDS Jobs

CONSTANTS
    NBatches,  \* the batches of the recording, numbered in sequence order
    Serves     \* the stage each worker goroutine leases (WORKER_POOLS)

Batches == 1 .. NBatches

(* The dedupe keys: a batch for the first three stages; for resolve the    *)
(* parsed_seq that normalize had reached.                                  *)
PipelineJobs ==
    ({"decode", "assemble", "normalize"} \X Batches) \union ({"resolve"} \X (0 .. NBatches))

ASSUME PipelineAssumption ==
    /\ NBatches \in Nat
    /\ JobIds = PipelineJobs
    /\ Serves \in [Workers -> {"decode", "assemble", "normalize", "resolve"}]

VARIABLES
    active,    \* capture_runs.state = 'active'
    events,    \* recording_events: the batches that are decoded
    tasks,     \* capture_tasks: the batches its counts were taken from
    attempt,   \* model_attempts: the batches the row was assembled from
    view,      \* its normalized view
    parsed,    \* batches with parsed_at
    parsedSeq, \* recordings.parsed_seq
    resolved,  \* the relations: the batches of the views they were built from
    lock,      \* holder of the advisory lock of lockProjection
    local,     \* each goroutine: the next step of its handler, and what it read
    lapse      \* ghost: "assembly", an upsert replaced a row made from more
               \* batches; "lock", a handler lost its session lock

stageVars == <<active, events, tasks, attempt, view, parsed, parsedSeq, resolved, lock, local, lapse>>
vars == <<queueVars, stageVars>>

At(step, read) == [step |-> step, read |-> read]

Init ==
    /\ QueueInit
    /\ active = TRUE
    /\ events = {} /\ tasks = {} /\ attempt = {} /\ view = {} /\ parsed = {}
    /\ parsedSeq = 0
    /\ resolved = {}
    /\ lock = Nobody
    /\ local = [w \in Workers |-> At("start", {})]
    /\ lapse = {}

Stage(w) == worker[w].job[1]
Input(w) == worker[w].job[2]
Step(w, s) == worker[w].pc = "handling" /\ local[w].step = s
Goto(w, s) == local' = [local EXCEPT ![w] = At(s, {})]

(* The session lock is given back on every return, and by the database     *)
(* when the connection of a dead process closes.  A handler that has lost  *)
(* it gives back nothing, whoever holds it by then.                        *)
Unlocked(w) == IF lock = w THEN Nobody ELSE lock

----------------------------------------------------------------------------
(* UploadBatch registers a batch and its decode job in one transaction.    *)
RegisterBatch(b) ==
    /\ active
    /\ job[<<"decode", b>>].status = "none"
    /\ job' = Enqueued(job, {<<"decode", b>>})
    /\ UNCHANGED <<worker, budget, stageVars>>

(* RequestDelete: the run leaves 'active', its pending jobs become done.   *)
RequestDelete ==
    /\ active
    /\ active' = FALSE
    /\ job' = PendingDone(job, JobIds)
    /\ UNCHANGED <<worker, budget, lapse, events, tasks, attempt, view, parsed,
                   parsedSeq, resolved, lock, local>>

LeaseJob(w, j) ==
    /\ j[1] = Serves[w]
    /\ Lease(w, j)
    /\ Goto(w, "start")
    /\ UNCHANGED <<active, lapse, events, tasks, attempt, view, parsed, parsedSeq, resolved, lock>>

(* The handler returns nil or an error.                                    *)
Finish(w, pc) ==
    /\ Return(w, pc)
    /\ Goto(w, "start")
    /\ lock' = Unlocked(w)

(* Handle: a run that is not active needs no work.                         *)
Cancelled(w) ==
    /\ Step(w, "start")
    /\ ~active
    /\ Finish(w, "succeeded")
    /\ UNCHANGED <<active, lapse, events, tasks, attempt, view, parsed, parsedSeq, resolved>>

EnqueueNext_Never(w, j) ==
    /\ Return(w, "succeeded")
    /\ Goto(w, "start")
    /\ lock' = Unlocked(w)

(* enqueueNext: the follow-up job, if the run is still active, in its own  *)
(* transaction; then the handler returns nil.                              *)
EnqueueNext(w, j) ==
    /\ job' = IF active THEN Enqueued(job, {j}) ELSE job
    /\ worker' = [worker EXCEPT ![w].pc = "succeeded"]
    /\ Goto(w, "start")
    /\ lock' = Unlocked(w)
    /\ UNCHANGED budget

----------------------------------------------------------------------------
(* Decode: the events of the batch, inserted unless they are there.        *)
Decode(w) ==
    /\ Step(w, "start") /\ Stage(w) = "decode" /\ active
    /\ events' = events \union {Input(w)}
    /\ Goto(w, "tasks")
    /\ UNCHANGED <<queueVars, active, lapse, tasks, attempt, view, parsed, parsedSeq, resolved, lock>>

RebuildCaptureTasks_Earlier(w) ==
    /\ Step(w, "tasks")
    /\ tasks' = events \ {Input(w)}
    /\ Goto(w, "next")
    /\ UNCHANGED <<queueVars, active, lapse, events, attempt, view, parsed, parsedSeq, resolved, lock>>

(* rebuildCaptureTasks: one transaction that takes its advisory lock       *)
(* first, reads all the events of the run and replaces the counts.         *)
RebuildCaptureTasks(w) ==
    /\ Step(w, "tasks")
    /\ tasks' = events
    /\ Goto(w, "next")
    /\ UNCHANGED <<queueVars, active, lapse, events, attempt, view, parsed, parsedSeq, resolved, lock>>

(* The last step of decode and of assemble.                                *)
EnqueueAssemble(w) ==
    /\ Step(w, "next") /\ Stage(w) = "decode"
    /\ EnqueueNext(w, <<"assemble", Input(w)>>)
    /\ UNCHANGED <<active, lapse, events, tasks, attempt, view, parsed, parsedSeq, resolved>>

EnqueueNormalize(w) ==
    /\ Step(w, "next") /\ Stage(w) = "assemble"
    /\ EnqueueNext(w, <<"normalize", Input(w)>>)
    /\ UNCHANGED <<active, lapse, events, tasks, attempt, view, parsed, parsedSeq, resolved>>

(* Assemble: loadRunEvents reads the events of the attempt in the whole    *)
(* run; upsertAttempt replaces the row by what was made of them.           *)
LoadRunEvents(w) ==
    /\ Step(w, "start") /\ Stage(w) = "assemble" /\ active
    /\ local' = [local EXCEPT ![w] = At("write", events)]
    /\ UNCHANGED <<queueVars, active, lapse, events, tasks, attempt, view, parsed, parsedSeq, resolved, lock>>

UpsertAttempt(w) ==
    /\ Step(w, "write") /\ Stage(w) = "assemble"
    /\ attempt' = local[w].read
    /\ lapse' = IF attempt \subseteq local[w].read THEN lapse ELSE lapse \union {"assembly"}
    /\ Goto(w, "next")
    /\ UNCHANGED <<queueVars, active, events, tasks, view, parsed, parsedSeq, resolved, lock>>

LockProjection_Shared(w) ==
    /\ Step(w, "start") /\ Stage(w) \in {"normalize", "resolve"} /\ active
    /\ lock' = w
    /\ Goto(w, "read")
    /\ UNCHANGED <<queueVars, active, lapse, events, tasks, attempt, view, parsed, parsedSeq, resolved>>

(* lockProjection, of normalize and of resolve.                            *)
LockProjection(w) ==
    /\ Step(w, "start") /\ Stage(w) \in {"normalize", "resolve"} /\ active
    /\ lock = Nobody
    /\ lock' = w
    /\ Goto(w, "read")
    /\ UNCHANGED <<queueVars, active, lapse, events, tasks, attempt, view, parsed, parsedSeq, resolved>>

(* The connection that holds the session lock breaks, and the database     *)
(* frees the lock.  The handler works on other connections of the pool and *)
(* goes on; nothing tells it before it unlocks.                            *)
LoseLock(w) ==
    /\ lock = w
    /\ Spend("faults")
    /\ lock' = Nobody
    /\ lapse' = lapse \union {"lock"}
    /\ UNCHANGED <<job, worker, active, events, tasks, attempt, view, parsed, parsedSeq,
                   resolved, local>>

(* normalizeAttempt reads the row, then updates its view.  The columns of  *)
(* the row that the update derives from the same body (terminal_state,     *)
(* api_mode, model, usage) belong to the view; so do the sse chunks that   *)
(* it reads from the events when the row has no body.                      *)
ReadAttempt(w) ==
    /\ Step(w, "read") /\ Stage(w) = "normalize"
    /\ local' = [local EXCEPT ![w] = At("write", attempt)]
    /\ UNCHANGED <<queueVars, active, lapse, events, tasks, attempt, view, parsed, parsedSeq, resolved, lock>>

NormalizeAttempt(w) ==
    /\ Step(w, "write") /\ Stage(w) = "normalize"
    /\ view' = local[w].read
    /\ Goto(w, "parsed")
    /\ UNCHANGED <<queueVars, active, lapse, events, tasks, attempt, parsed, parsedSeq, resolved, lock>>

AdvanceParsed_Past(marked) == Cardinality(marked) + 1

AdvanceParsed_Max(marked) == CHOOSE n \in marked : \A m \in marked : m <= n

(* The loop that moves parsed_seq over the batches that follow it.         *)
AdvanceParsed(marked) ==
    LET advance[n \in 0 .. NBatches] == IF n + 1 \in marked THEN advance[n + 1] ELSE n
    IN  advance[parsedSeq]

(* The batch is parsed, parsed_seq advances, and resolve is enqueued for   *)
(* the parsed_seq reached: one transaction.                                *)
MarkParsed(w) ==
    LET marked == parsed \union {Input(w)}
        seq == AdvanceParsed(marked)
    IN
    /\ Step(w, "parsed")
    /\ parsed' = marked
    /\ parsedSeq' = seq
    /\ job' = Enqueued(job, {<<"resolve", seq>>})
    /\ worker' = [worker EXCEPT ![w].pc = "succeeded"]
    /\ Goto(w, "start")
    /\ lock' = Unlocked(w)
    /\ UNCHANGED <<budget, active, lapse, events, tasks, attempt, view, resolved>>

(* Resolve: loadAttempts reads the views, a transaction replaces the       *)
(* relations of the run.                                                   *)
LoadAttempts(w) ==
    /\ Step(w, "read") /\ Stage(w) = "resolve"
    /\ local' = [local EXCEPT ![w] = At("write", view)]
    /\ UNCHANGED <<queueVars, active, lapse, events, tasks, attempt, view, parsed, parsedSeq, resolved, lock>>

Resolve(w) ==
    /\ Step(w, "write") /\ Stage(w) = "resolve"
    /\ resolved' = local[w].read
    /\ Finish(w, "succeeded")
    /\ UNCHANGED <<active, lapse, events, tasks, attempt, view, parsed, parsedSeq>>

(* Any statement may fail (and the context ends after four minutes).       *)
HandlerFails(w) ==
    /\ worker[w].pc = "handling"
    /\ budget.faults > 0
    /\ worker' = [worker EXCEPT ![w].pc = "failed"]
    /\ budget' = [budget EXCEPT !.faults = @ - 1]
    /\ Goto(w, "start")
    /\ lock' = Unlocked(w)
    /\ UNCHANGED <<job, active, lapse, events, tasks, attempt, view, parsed, parsedSeq, resolved>>

CrashWorker(w) ==
    /\ Crash(w)
    /\ Goto(w, "start")
    /\ lock' = Unlocked(w)
    /\ UNCHANGED <<active, lapse, events, tasks, attempt, view, parsed, parsedSeq, resolved>>

----------------------------------------------------------------------------
Handler(w) ==
    \/ Cancelled(w)
    \/ Decode(w) \/ RebuildCaptureTasks(w) \/ EnqueueAssemble(w)
    \/ LoadRunEvents(w) \/ UpsertAttempt(w) \/ EnqueueNormalize(w)
    \/ LockProjection(w)
    \/ ReadAttempt(w) \/ NormalizeAttempt(w) \/ MarkParsed(w)
    \/ LoadAttempts(w) \/ Resolve(w)

Report(w) == (Complete(w) \/ Fail(w)) /\ UNCHANGED stageVars

WorkerRuns(w) == (\E j \in JobIds : LeaseJob(w, j)) \/ Handler(w) \/ Report(w)

Queue ==
    /\ \/ \E j \in JobIds : Expire(j) \/ (active /\ Retry(j))
       \/ \E w \in Workers : Renew(w) \/ ReportLost(w)
    /\ UNCHANGED stageVars

Next ==
    \/ \E b \in Batches : RegisterBatch(b)
    \/ RequestDelete
    \/ \E w \in Workers : WorkerRuns(w) \/ HandlerFails(w) \/ CrashWorker(w) \/ LoseLock(w)
    \/ Queue

Spec == Init /\ [][Next]_vars

(* As long as some worker can go on, one does: the loops poll for what is  *)
(* ready and statements end.  Leases that are not renewed run out.         *)
FairSpec ==
    /\ Spec
    /\ WF_vars(\E w \in Workers : WorkerRuns(w))
    /\ WF_vars((\E j \in JobIds : Expire(j)) /\ UNCHANGED stageVars)

----------------------------------------------------------------------------
Registered == {b \in Batches : job[<<"decode", b>>].status # "none"}

(* Nothing is queued and no worker is busy.                                *)
Settled ==
    /\ \A j \in JobIds : job[j].status \in {"none", "done", "dead"}
    /\ \A w \in Workers : worker[w].pc = "idle"

NoneDead == \A j \in JobIds : job[j].status # "dead"

(* The state of the stages is well formed.                                 *)
TypeOK ==
    /\ QueueTypeOK
    /\ active \in BOOLEAN
    /\ {events, tasks, attempt, view, parsed, resolved} \subseteq SUBSET Batches
    /\ parsedSeq \in 0 .. NBatches
    /\ lock \in Workers \union {Nobody}
    /\ local \in [Workers -> [step : {"start", "tasks", "next", "read", "write", "parsed"},
                              read : SUBSET Batches]]
    /\ lapse \subseteq {"assembly", "lock"}

(* A stage of a live run is done only when the next one is in the queue:   *)
(* the follow-up is committed before Complete, whatever fails in between.  *)
StageChain ==
    active => \A b \in Batches :
        /\ job[<<"decode", b>>].status = "done" => job[<<"assemble", b>>].status # "none"
        /\ job[<<"assemble", b>>].status = "done" => job[<<"normalize", b>>].status # "none"
        /\ job[<<"normalize", b>>].status = "done" => job[<<"resolve", parsedSeq>>].status # "none"

(* parsed_seq promises that the batches up to it can be seen: each was     *)
(* decoded and normalized, and, as long as no assembly was overtaken and   *)
(* no projection lock lost, the view was made from its events.             *)
ParsedIsVisible ==
    /\ 1 .. parsedSeq \subseteq parsed \intersect events
    /\ lapse = {} => 1 .. parsedSeq \subseteq view

(* What lockProjection is for: as long as no assembly was overtaken and no *)
(* lock lost, normalize and resolve never replace a view or the relations  *)
(* by what an earlier read gave, so that a batch once shown stays shown.   *)
ProjectionsGrow ==
    [][lapse' = {} => view \subseteq view' /\ resolved \subseteq resolved']_vars

(* Once a run without dead jobs and without a missing batch has settled,   *)
(* every batch of it is decoded, counted and parsed; and if no assembly    *)
(* was overtaken and no lock lost, the attempt, its view and the relations *)
(* were made from all of them.                                             *)
SettledIsComplete ==
    (Settled /\ NoneDead /\ active /\ \E n \in 0 .. NBatches : Registered = 1 .. n) =>
        /\ events = Registered /\ tasks = Registered /\ 1 .. parsedSeq = Registered
        /\ lapse = {} => attempt = Registered /\ view = Registered /\ resolved = Registered

(* Two workers that normalize or resolve the run are never both inside the *)
(* section that lockProjection guards (projection_lock.go: "Serialize      *)
(* normalization and resolution for one run across worker replicas").      *)
ProjectionIsSerial ==
    LET inside == {w \in Workers : /\ worker[w].pc = "handling" /\ local[w].step # "start"
                                   /\ Stage(w) \in {"normalize", "resolve"}}
    IN  \A v, w \in inside : v = w

(* Once everything has settled, the attempt shows all the events that were *)
(* decoded: the batches of one stream are assembled one after the other    *)
(* (platform document 05, section 3).                                      *)
AttemptReflectsEvents == (Settled /\ NoneDead /\ active) => attempt = events

(* A dead job does not hold up the batches after it (platform document 05, *)
(* section 2): what was parsed is resolved once everything has settled.    *)
DeadDoesNotBlock ==
    (Settled /\ active /\ Registered = Batches) => parsed \subseteq resolved

=============================================================================
