-------------------------------- MODULE Jobs --------------------------------
(***************************************************************************)
(* The platform's job queue: the table processing_jobs, its operations     *)
(* (iorec-platform/internal/jobs/jobs.go) and the loop of a worker         *)
(* goroutine (cmd/pipeline-worker/main.go).                                *)
(*                                                                         *)
(* A row is leased for a while, a renewal goroutine keeps extending the    *)
(* lease while the handler runs, and the worker reports Complete or Fail   *)
(* when the handler has returned.  Both reports name the row by its id     *)
(* only: whoever holds the lease by then, they apply.  The errors of both  *)
(* reports, and of the renewals, are dropped.                              *)
(*                                                                         *)
(* What a handler does is not part of this module; it returns nil or an    *)
(* error.  Pipeline refines the handlers of the processing stages.         *)
(***************************************************************************)
EXTENDS Naturals, FiniteSets

CONSTANTS
    JobIds,       \* the dedupe keys: type, input and processor version
    Workers,      \* worker goroutines, of all processes
    MaxAttempts,  \* 5 in the code
    MaxFaults,    \* bound: crashes and lost reports
    MaxStalls,    \* bound: leases that run out under a live handler
    MaxRetries,   \* bound: RetryJob requests
    Nobody        \* null: no lease_owner, no job

ASSUME QueueAssumption ==
    /\ MaxAttempts \in Nat \ {0}
    /\ MaxFaults \in Nat /\ MaxStalls \in Nat /\ MaxRetries \in Nat
    /\ Nobody \notin Workers \union JobIds

VARIABLES
    job,      \* the row of each key; status "none" stands for no row
    worker,   \* each goroutine: what it handles, and the attempts of its copy
    budget    \* what is left of the three bounds

queueVars == <<job, worker, budget>>

Statuses == {"none", "pending", "leased", "done", "dead"}

Row(status, owner, expired, attempts) ==
    [status |-> status, owner |-> owner, expired |-> expired, attempts |-> attempts]

Idle == [pc |-> "idle", job |-> Nobody, attempts |-> 0]

QueueInit ==
    /\ job = [j \in JobIds |-> Row("none", Nobody, FALSE, 0)]
    /\ worker = [w \in Workers |-> Idle]
    /\ budget = [faults |-> MaxFaults, stalls |-> MaxStalls, retries |-> MaxRetries]

Spend(what) ==
    /\ budget[what] > 0
    /\ budget' = [budget EXCEPT ![what] = @ - 1]

----------------------------------------------------------------------------
(* Enqueue: insert ... on conflict (dedupe_key) do nothing.  A key that    *)
(* has a row keeps it, whatever its status.                                *)
Enqueued(rows, keys) ==
    [j \in JobIds |-> IF j \in keys /\ rows[j].status = "none"
                      THEN Row("pending", Nobody, FALSE, 0) ELSE rows[j]]

Ready_Leased(j) == job[j].status \in {"pending", "leased"}


Ready(j) ==
    \/ job[j].status = "pending"
    \/ job[j].status = "leased" /\ job[j].expired

(* Lease: one ready row, the next attempt. The order by priority and age   *)
(* is left open: any ready row may be the one.                             *)
Lease(w, j) ==
    /\ worker[w].pc = "idle"
    /\ Ready(j)
    /\ job' = [job EXCEPT ![j] = Row("leased", w, FALSE, @.attempts + 1)]
    /\ worker' = [worker EXCEPT ![w] =
                    [pc |-> "handling", job |-> j, attempts |-> job[j].attempts + 1]]
    /\ UNCHANGED budget

(* The lease runs out: of a row nobody works on (its worker crashed, its   *)
(* report was lost, or its backoff is over), or under a handler whose      *)
(* process is suspended or cut off from the database.                      *)
Expire(j) ==
    /\ job[j].status = "leased" /\ ~job[j].expired
    /\ IF \E w \in Workers : worker[w].job = j /\ job[j].owner = w
       THEN Spend("stalls")
       ELSE UNCHANGED budget
    /\ job' = [job EXCEPT ![j].expired = TRUE]
    /\ UNCHANGED worker

(* Renew: only the owner of the row extends its lease.                     *)
Renew(w) ==
    LET j == worker[w].job IN
    /\ worker[w].pc = "handling"
    /\ job[j].owner = w /\ job[j].expired
    /\ job' = [job EXCEPT ![j].expired = FALSE]
    /\ UNCHANGED <<worker, budget>>

(* Handle returns; the renewals end here.                                  *)
Return(w, pc) ==
    /\ worker[w].pc = "handling"
    /\ worker' = [worker EXCEPT ![w].pc = pc]
    /\ UNCHANGED <<job, budget>>

(* Complete: done, whatever the row was.                                   *)
Complete(w) ==
    /\ worker[w].pc = "succeeded"
    /\ job' = [job EXCEPT ![worker[w].job] = Row("done", Nobody, FALSE, @.attempts)]
    /\ worker' = [worker EXCEPT ![w] = Idle]
    /\ UNCHANGED budget

Fail_Status(w) ==
    LET j == worker[w].job IN
    /\ worker[w].pc = "failed"
    /\ job' = [job EXCEPT ![j] =
                 IF worker[w].attempts >= MaxAttempts
                 THEN Row("dead", Nobody, FALSE, @.attempts)
                 ELSE Row("failed", Nobody, FALSE, @.attempts)]
    /\ worker' = [worker EXCEPT ![w] = Idle]
    /\ UNCHANGED budget

Fail_OffByOne(w) ==
    LET j == worker[w].job IN
    /\ worker[w].pc = "failed"
    /\ job' = [job EXCEPT ![j] =
                 IF worker[w].attempts + 1 >= MaxAttempts
                 THEN Row("dead", Nobody, FALSE, @.attempts)
                 ELSE Row("leased", @.owner, FALSE, @.attempts)]
    /\ worker' = [worker EXCEPT ![w] = Idle]
    /\ UNCHANGED budget

Fail_Forever(w) ==
    LET j == worker[w].job IN
    /\ worker[w].pc = "failed"
    /\ job' = [job EXCEPT ![j] = Row("leased", @.owner, FALSE, 0)]
    /\ worker' = [worker EXCEPT ![w] = Idle]
    /\ UNCHANGED budget

(* Fail: dead after the last attempt of the worker's own copy of the job,  *)
(* otherwise leased until the backoff is over.  The row may be done, or    *)
(* leased to another worker, by now.                                       *)
Fail(w) ==
    LET j == worker[w].job IN
    /\ worker[w].pc = "failed"
    /\ job' = [job EXCEPT ![j] =
                 IF worker[w].attempts >= MaxAttempts
                 THEN Row("dead", Nobody, FALSE, @.attempts)
                 ELSE Row("leased", @.owner, FALSE, @.attempts)]
    /\ worker' = [worker EXCEPT ![w] = Idle]
    /\ UNCHANGED budget

(* The report does not reach the database; its error is dropped.           *)
ReportLost(w) ==
    /\ worker[w].pc \in {"succeeded", "failed"}
    /\ Spend("faults")
    /\ worker' = [worker EXCEPT ![w] = Idle]
    /\ UNCHANGED job

(* The process dies and a new one takes its place.                         *)
Crash(w) ==
    /\ worker[w].pc # "idle"
    /\ Spend("faults")
    /\ worker' = [worker EXCEPT ![w] = Idle]
    /\ UNCHANGED job


(* RetryJob: a dead job goes back to pending, its attempts reset.          *)
Retry(j) ==
    /\ job[j].status = "dead"
    /\ Spend("retries")
    /\ job' = [job EXCEPT ![j] = Row("pending", Nobody, FALSE, 0)]
    /\ UNCHANGED worker

(* Retention takes the pending jobs of a run it deletes out of the queue:  *)
(* they become done although nobody has handled them.  Leased jobs go on.  *)
PendingDone(rows, keys) ==
    [j \in JobIds |-> IF j \in keys /\ rows[j].status = "pending"
                      THEN Row("done", Nobody, FALSE, rows[j].attempts) ELSE rows[j]]

CancelPending(keys) ==
    /\ job' = PendingDone(job, keys)
    /\ job' # job
    /\ UNCHANGED <<worker, budget>>

----------------------------------------------------------------------------
(* The queue on its own: handlers that return at once, nil or an error.    *)
Submit(j) ==
    /\ job[j].status = "none"
    /\ job' = Enqueued(job, {j})
    /\ UNCHANGED <<worker, budget>>

WorkerStep(w) ==
    \/ \E j \in JobIds : Lease(w, j)
    \/ Return(w, "succeeded")
    \/ Return(w, "failed")
    \/ Complete(w)
    \/ Fail(w)

QueueNext ==
    \/ \E j \in JobIds : Submit(j) \/ Expire(j) \/ Retry(j)
    \/ \E w \in Workers : WorkerStep(w) \/ Renew(w) \/ ReportLost(w) \/ Crash(w)
    \/ \E keys \in SUBSET JobIds : CancelPending(keys)

QueueSpec == QueueInit /\ [][QueueNext]_queueVars

(* A handler returns (its context ends after four minutes), the loop       *)
(* leases whatever is ready, and time passes.                              *)
QueueFairSpec ==
    /\ QueueSpec
    /\ \A w \in Workers : WF_queueVars(WorkerStep(w))
    /\ \A j \in JobIds : WF_queueVars(Expire(j))

----------------------------------------------------------------------------
(* The state of the queue is well formed.                                  *)
QueueTypeOK ==
    /\ job \in [JobIds -> [status : Statuses, owner : Workers \union {Nobody},
                           expired : BOOLEAN, attempts : Nat]]
    /\ worker \in [Workers -> [pc : {"idle", "handling", "succeeded", "failed"},
                               job : JobIds \union {Nobody}, attempts : Nat]]
    /\ budget \in [faults : 0 .. MaxFaults, stalls : 0 .. MaxStalls, retries : 0 .. MaxRetries]

(* No lease has run out under a live handler so far.                       *)
Unstalled == budget.stalls = MaxStalls

(* Fail makes a job dead only after MaxAttempts leases of it, unless a     *)
(* stalled handler reports after RetryJob has reset the attempts.          *)
DeadWasTried ==
    Unstalled =>
        \A j \in JobIds : job[j].status = "dead" => job[j].attempts >= MaxAttempts

(* While no lease runs out under a live handler, a job is handled by one   *)
(* worker at a time, and that worker owns the row.                         *)
OneHandler ==
    Unstalled =>
        \A w \in Workers : worker[w].pc # "idle" =>
            /\ job[worker[w].job].status = "leased"
            /\ job[worker[w].job].owner = w
            /\ job[worker[w].job].attempts = worker[w].attempts


(* A job is leased at most MaxAttempts times before it is dead (platform   *)
(* document 05, section 2).                                                *)
AttemptsBounded == \A j \in JobIds : job[j].attempts <= MaxAttempts

(* Every job that is in the queue is done or dead in the end, whatever     *)
(* crashes, lost reports, stalls and errors come in between.               *)
JobsSettle ==
    \A j \in JobIds : job[j].status # "none" ~> job[j].status \in {"done", "dead"}
=============================================================================
