------------------------------- MODULE Upload -------------------------------
(***************************************************************************)
(* The uploader of one run against the platform's ingestion service:       *)
(* src/src/upload.rs and src/iorec-platform/internal/ingest/ingest.go.     *)
(*                                                                         *)
(* The uploader cuts the run's events into batches, writes the plan to its *)
(* spool, and sends one batch after the other; the run is split into       *)
(* recordings (segments), each sealed before the next begins.  Requests    *)
(* and answers are lost, requests arrive twice or long after the uploader  *)
(* gave up on them, and the uploader dies at any step and starts over from *)
(* its spool.                                                              *)
(***************************************************************************)
EXTENDS Integers, Sequences, SequencesExt, FiniteSets

CONSTANTS
  MaxSeq,       \* bound: events of the run
  MaxSegments,  \* MAX_RECORDING_SEGMENTS
  BatchEvents,  \* DEFAULT_BATCH_EVENTS
  MaxFaults,    \* bound: losses, duplicates and aborted operations
  Blobs,        \* body blobs
  Body,         \* the blob each event refers to
  Stored,       \* blobs the platform holds for other recordings at first
  NoBlob,
  HookEnds,     \* events that a hook submits under the name run_end or
                \* run_finished, which the collector does not reserve
  LateSeal,     \* a seal request may outlive the operation that sent it
  AutoSeal,     \* the platform seals recordings that have gone quiet
  Reclaim       \* the platform deletes blobs no recording refers to

ASSUME UploadAssumption ==
  /\ MaxSeq \in Nat \ {0} /\ MaxSegments \in Nat \ {0}
  /\ BatchEvents \in Nat \ {0} /\ MaxFaults \in Nat
  /\ NoBlob \notin Blobs /\ Stored \subseteq Blobs
  /\ Body \in [1 .. MaxSeq -> Blobs \cup {NoBlob}]
  /\ HookEnds \subseteq 1 .. MaxSeq
  /\ {LateSeal, AutoSeal, Reclaim} \subseteq BOOLEAN

VARIABLES
  avail,     \* events durable in the local log
  ended,     \* the run is over: its manifest is no longer "running"
  segs,      \* the spool: one UploadState file per segment
  st,        \* the UploadState in the uploader's memory
  op,        \* the upload operation in progress
  call,      \* the request it waits for
  reply,     \* the answer it has received
  net,       \* requests on their way to the platform
  recs,      \* the platform's recordings, by segment
  runEnded,  \* capture_runs.ended_at: "no", or who had it set: the "run"
             \* (its final seal, its run_finished) or only a "hook"
  blobs,     \* blobs in state 'active'
  overlap,   \* ghost: a batch was refused with batch_overlap
  refused,   \* ghost: a batch was refused because its recording is sealed
             \* without a final_seq
  faults     \* losses, duplicates and aborted operations so far

localVars == <<avail, ended>>
clientVars == <<segs, st, op, call, reply>>
serverVars == <<recs, runEnded, blobs, overlap, refused>>
vars == <<localVars, clientVars, net, serverVars, faults>>

-----------------------------------------------------------------------------
(* Values.  A batch is a pair <<first_seq, last_seq>>: its content is the   *)
(* range of an append-only log.                                             *)
Segments == 1 .. MaxSegments
Seqs == 0 .. MaxSeq
Null == -1
Batch == {b \in Seqs \X Seqs : 1 <= b[1] /\ b[1] <= b[2]}
UploadState == [first : 1 .. MaxSeq + 1, batches : Seq(Batch),
                acked : Seqs, sealed : BOOLEAN]
Recording == [state : {"none", "open", "sealed"}, base : Seqs, durable : Seqs,
              final : Seqs \cup {Null}, batches : SUBSET Batch,
              missing : SUBSET Blobs]
Modes == {"flush", "roll", "final", "backfill"}
Steps == {"idle", "create", "get", "plan", "blobs", "batch", "seal", "confirm"}
Operation == [pc : Steps, mode : Modes, bound : Seqs, no : Segments,
              todo : Seq(Batch), had : SUBSET Blobs, sent : BOOLEAN]
Request ==
  [type : {"create"}, no : Segments, base : Seqs]
    \cup [type : {"get"}, no : Segments]
    \cup [type : {"batch"}, no : Segments, batch : Batch]
    \cup [type : {"seal"}, no : Segments, final : Seqs, runFinal : BOOLEAN]
NoCall == [type |-> "none"]
Answer == [ok : BOOLEAN, rec : Recording, missing : SUBSET Blobs]
NoReply == [ok |-> FALSE]

NoRecording == [state |-> "none", base |-> 0, durable |-> 0, final |-> Null,
                batches |-> {}, missing |-> {}]
NoState == [first |-> 1, batches |-> <<>>, acked |-> 0, sealed |-> FALSE]
NewState(first) == [NoState EXCEPT !.first = first, !.acked = first - 1]
IdleOp == [pc |-> "idle", mode |-> "flush", bound |-> 0, no |-> 1,
           todo |-> <<>>, had |-> {}, sent |-> FALSE]

Bodies(b) == {Body[e] : e \in b[1] .. b[2]} \ {NoBlob}

-----------------------------------------------------------------------------
(* The spool.                                                               *)
Base(s) == s.first - 1

planned_sequence(s) ==
  IF s.batches = <<>> THEN Base(s) ELSE Last(s.batches)[2]

is_batch_boundary(s, n) ==
  n = Base(s) \/ \E i \in DOMAIN s.batches : s.batches[i][2] = n

validate_state_prefix(s, available) ==
  /\ \A i \in DOMAIN s.batches :
       s.batches[i][1] = IF i = 1 THEN s.first ELSE s.batches[i - 1][2] + 1
  /\ planned_sequence(s) <= available
  /\ s.acked <= planned_sequence(s) /\ is_batch_boundary(s, s.acked)
  /\ s.sealed => s.acked = planned_sequence(s)

load_segment_chain(available) ==
  \A i \in DOMAIN segs :
    /\ validate_state_prefix(segs[i], available)
    /\ segs[i].first = IF i = 1 THEN 1 ELSE planned_sequence(segs[i - 1]) + 1
    /\ i < Len(segs) => segs[i].sealed /\ segs[i].acked = planned_sequence(segs[i])

(* The segment an upload to this boundary works on.                         *)
select_segment_cursor(available) ==
  IF segs = <<>> THEN [no |-> 1, first |-> 1]
  ELSE LET last == Last(segs)
       IN  IF ~last.sealed \/ planned_sequence(last) = available
           THEN [no |-> Len(segs), first |-> last.first]
           ELSE [no |-> Len(segs) + 1, first |-> planned_sequence(last) + 1]

(* The fixed batches of a range of events.                                  *)
build_batch_plans_range(first, last) ==
  [i \in 1 .. ((last - first) \div BatchEvents) + 1 |->
     LET f == first + (i - 1) * BatchEvents
     IN  <<f, IF f + BatchEvents - 1 < last THEN f + BatchEvents - 1 ELSE last>>]

(* write_state: the state of segment n replaces its file.                   *)
Written(n, s) == IF n = Len(segs) + 1 THEN Append(segs, s)
                 ELSE [segs EXCEPT ![n] = s]

segment_chain_complete_AnyEnd(final) ==
  /\ segs # <<>>
  /\ \A i \in DOMAIN segs :
       /\ planned_sequence(segs[i]) >= segs[i].first
       /\ segs[i].sealed /\ segs[i].acked = planned_sequence(segs[i])

segment_chain_complete(final) ==
  /\ segs # <<>> /\ planned_sequence(Last(segs)) = final
  /\ \A i \in DOMAIN segs :
       /\ planned_sequence(segs[i]) >= segs[i].first
       /\ segs[i].sealed /\ segs[i].acked = planned_sequence(segs[i])

(* What lets local retention delete the run.                                *)
verify_uploaded_retention_gate ==
  ended /\ load_segment_chain(avail) /\ segment_chain_complete(avail)

-----------------------------------------------------------------------------
Init ==
  /\ avail = 0 /\ ended = FALSE
  /\ segs = <<>> /\ st = NoState /\ op = IdleOp
  /\ call = NoCall /\ reply = NoReply /\ net = {}
  /\ recs = [n \in Segments |-> NoRecording] /\ runEnded = "no"
  /\ blobs = Stored /\ overlap = FALSE /\ refused = FALSE
  /\ faults = 0

(* The run records events and ends.  The writer may have failed or filled   *)
(* its budget by then: the runner goes on without its last events, the      *)
(* run_finished event among them.                                           *)
Record ==
  /\ ~ended /\ avail < MaxSeq
  /\ avail' = avail + 1
  /\ UNCHANGED <<ended, clientVars, net, serverVars, faults>>

End ==
  /\ ~ended /\ avail > 0
  /\ ended' = TRUE
  /\ UNCHANGED <<avail, clientVars, net, serverVars, faults>>

-----------------------------------------------------------------------------
(* The uploader.                                                            *)
Local(o) == op' = o /\ UNCHANGED <<localVars, net, serverVars, faults>>

Send(m) == call' = m /\ net' = net \cup {m} /\ reply' = NoReply

Ask(m) ==
  /\ call = NoCall
  /\ Send(m)
  /\ UNCHANGED <<localVars, segs, st, op, serverVars, faults>>

(* An answer, or a check on it, that ends the operation with an error.      *)
Received(type) == call.type = type /\ reply # NoReply
Clear == call' = NoCall /\ reply' = NoReply
Stop_Waiting ==
  Local(IdleOp) /\ st' = NoState /\ UNCHANGED <<segs, call, reply>>

Stop == Clear /\ Local(IdleOp) /\ st' = NoState /\ UNCHANGED segs

(* load_or_create_state, followed by the write after the registration.      *)
load_or_create_state(n, first) ==
  /\ st' = IF n <= Len(segs) THEN segs[n] ELSE NewState(first)
  /\ segs' = Written(n, st')

(* An operation up to a boundary opens the spool and selects its segment.   *)
Begin(mode, bound) ==
  /\ op.pc = "idle"
  /\ load_segment_chain(bound)
  /\ LET c == select_segment_cursor(bound)
     IN  /\ c.no \in Segments
         /\ load_or_create_state(c.no, c.first)
         /\ Local([IdleOp EXCEPT !.pc = "create", !.mode = mode,
                                 !.bound = bound, !.no = c.no])
  /\ UNCHANGED <<call, reply>>

(* upload_run: the whole of a run that is over.                             *)
upload_run == ended /\ Begin("final", avail)

(* upload_active_segment for flush_active_run and for seal_active_run: a    *)
(* run that is being recorded, up to a boundary the writer has confirmed,   *)
(* by now perhaps long ago.                                                 *)
upload_active_segment(mode, bound) ==
  ~ended /\ bound \in 1 .. avail /\ Begin(mode, bound)

(* backfill_run: the batches of segment n that meet the range.              *)
Backfill(n, range) ==
  /\ op.pc = "idle" /\ n \in DOMAIN segs
  /\ load_segment_chain(IF ended THEN avail ELSE MaxSeq)
  /\ segs[n].first <= range[1] /\ range[2] <= planned_sequence(segs[n])
  /\ st' = segs[n]
  /\ Local([IdleOp EXCEPT !.pc = "create", !.mode = "backfill", !.no = n,
              !.todo = SelectSeq(segs[n].batches,
                 LAMBDA b : b[1] <= range[2] /\ b[2] >= range[1])])
  /\ UNCHANGED <<segs, call, reply>>

SendCreate ==
  op.pc = "create" /\ Ask([type |-> "create", no |-> op.no, base |-> Base(st)])

Created ==
  /\ op.pc = "create" /\ Received("create")
  /\ IF reply.ok
     THEN Clear /\ Local([op EXCEPT !.pc = "get"]) /\ UNCHANGED <<segs, st>>
     ELSE Stop

SendGet == op.pc \in {"get", "confirm"} /\ Ask([type |-> "get", no |-> op.no])

Agrees_Exactly(remote) == remote.base = Base(st) /\ remote.durable = st.acked

(* reconcile_remote.                                                        *)
Agrees(remote) ==
  /\ remote.base = Base(st)
  /\ remote.durable \in Base(st) .. planned_sequence(st)
  /\ is_batch_boundary(st, remote.durable)
  /\ remote.state = "sealed" /\ remote.final # Null
       => remote.final = planned_sequence(st)

reconcile_remote_Open(remote) == [st EXCEPT !.acked = remote.durable]

reconcile_remote(remote) ==
  [st EXCEPT !.acked = remote.durable,
             !.sealed = remote.state = "sealed"
                          /\ remote.durable = planned_sequence(st)]

Reconcile ==
  /\ op.pc = "get" /\ Received("get")
  /\ IF reply.ok /\ Agrees(reply.rec)
     THEN /\ st' = reconcile_remote(reply.rec)
          /\ segs' = Written(op.no, st')
          /\ Clear
          /\ Local([op EXCEPT !.pc = IF op.mode = "backfill" THEN "blobs"
                                     ELSE "plan"])
     ELSE Stop

(* A segment found sealed below the boundary: go on with the next one.      *)
NextSegment ==
  /\ op.pc = "plan" /\ st.sealed /\ planned_sequence(st) < op.bound
  /\ IF op.no < MaxSegments
     THEN /\ load_or_create_state(op.no + 1, planned_sequence(st) + 1)
          /\ Local([op EXCEPT !.pc = "create", !.no = op.no + 1])
          /\ UNCHANGED <<call, reply>>
     ELSE Stop

Unacked(s) == SelectSeq(s.batches, LAMBDA b : b[2] > s.acked)

Extended ==
  IF planned_sequence(st) = op.bound THEN st
  ELSE [st EXCEPT !.batches = @ \o
          build_batch_plans_range(planned_sequence(st) + 1, op.bound)]

Plan_Unwritten ==
  /\ op.pc = "plan" /\ (st.sealed => planned_sequence(st) = op.bound)
  /\ st' = Extended /\ UNCHANGED segs
  /\ Local([op EXCEPT !.pc = "blobs", !.todo = Unacked(st')])
  /\ UNCHANGED <<call, reply>>

(* extend_state_to: the plan is on disk before any batch of it is sent.     *)
Plan ==
  /\ op.pc = "plan" /\ (st.sealed => planned_sequence(st) = op.bound)
  /\ st' = Extended /\ segs' = Written(op.no, st')
  /\ Local([op EXCEPT !.pc = "blobs", !.todo = Unacked(st')])
  /\ UNCHANGED <<call, reply>>

(* ensure_blob for the blobs of the next batch not yet seen by this         *)
(* operation: a HEAD, and a PUT where the platform does not have the blob.  *)
(* PutBlob activates the blob and takes it off the missing_blobs lists.     *)
EnsureBlobs ==
  /\ op.pc = "blobs" /\ op.todo # <<>>
  /\ LET new == Bodies(Head(op.todo)) \ op.had
     IN  /\ blobs' = blobs \cup new
         /\ recs' = [n \in Segments |->
                       [recs[n] EXCEPT !.missing = @ \ (new \ blobs)]]
         /\ op' = [op EXCEPT !.pc = "batch", !.had = @ \cup new]
  /\ UNCHANGED <<localVars, segs, st, call, reply, net, runEnded, overlap,
                 refused, faults>>

SendBatch ==
  op.pc = "batch" /\ Ask([type |-> "batch", no |-> op.no, batch |-> Head(op.todo)])

validate_ack(a) ==
  /\ a.ok /\ a.missing = {}
  /\ a.rec.durable \in Head(op.todo)[2] .. planned_sequence(st)
  /\ is_batch_boundary(st, a.rec.durable)

Acked ==
  /\ op.pc = "batch" /\ Received("batch")
  /\ IF validate_ack(reply)
     THEN LET s == [st EXCEPT !.acked = reply.rec.durable,
                              !.sealed = IF op.mode = "final"
                                         THEN reply.rec.state = "sealed"
                                                /\ reply.rec.durable = op.bound
                                         ELSE @]
              rest == Tail(op.todo)
          IN  /\ st' = IF op.mode = "backfill" THEN st ELSE s
              /\ segs' = IF op.mode = "backfill" THEN segs ELSE Written(op.no, s)
              /\ Clear
              /\ Local([op EXCEPT !.pc = "blobs", !.sent = TRUE,
                          !.todo = IF op.mode = "backfill" THEN rest
                                   ELSE SelectSeq(rest, LAMBDA b : b[2] > s.acked)])
     ELSE Stop

(* Every batch is sent: seal, or return.                                    *)
Finish ==
  /\ op.pc = "blobs" /\ op.todo = <<>>
  /\ IF op.mode \in {"roll", "final"} /\ st.acked = op.bound
     THEN Local([op EXCEPT !.pc = "seal"]) /\ UNCHANGED <<segs, st, call, reply>>
     ELSE Stop

(* max_batches are sent and others remain: return without sealing.          *)
Pause ==
  /\ op.pc = "blobs" /\ op.todo # <<>> /\ op.mode # "backfill" /\ op.sent
  /\ faults < MaxFaults /\ faults' = faults + 1
  /\ op' = IdleOp /\ st' = NoState
  /\ UNCHANGED <<localVars, segs, call, reply, net, serverVars>>

SealRequest_RunFinal ==
  [type |-> "seal", no |-> op.no, final |-> op.bound, runFinal |-> TRUE]

SealRequest ==
  [type |-> "seal", no |-> op.no, final |-> op.bound,
   runFinal |-> op.mode = "final"]

SendSeal == op.pc = "seal" /\ Ask(SealRequest)

SealAnswered ==
  /\ op.pc = "seal" /\ Received("seal")
  /\ IF reply.ok
     THEN Clear /\ Local([op EXCEPT !.pc = "confirm"]) /\ UNCHANGED <<segs, st>>
     ELSE Stop

Confirm ==
  /\ op.pc = "confirm" /\ Received("get")
  /\ IF reply.ok /\ reply.rec.state = "sealed"
           /\ reply.rec.durable = op.bound /\ reply.rec.final = op.bound
     THEN /\ segs' = Written(op.no, [st EXCEPT !.acked = op.bound, !.sealed = TRUE])
          /\ st' = NoState /\ Clear /\ Local(IdleOp)
     ELSE Stop

(* request: the same request again after a time without an answer.          *)
Resend ==
  /\ call # NoCall /\ reply = NoReply /\ call \notin net
  /\ Send(call)
  /\ UNCHANGED <<localVars, segs, st, op, serverVars, faults>>

(* The process dies, or the retry budget of its request is spent.  What it  *)
(* sent may still arrive.                                                   *)
Abort ==
  /\ op.pc # "idle" /\ faults < MaxFaults
  /\ faults' = faults + 1
  /\ Clear /\ op' = IdleOp /\ st' = NoState
  /\ net' = IF call.type = "get" \/ (call.type = "seal" /\ ~LateSeal)
            THEN net \ {call} ELSE net
  /\ UNCHANGED <<localVars, segs, serverVars>>

-----------------------------------------------------------------------------
(* The platform.  Each handler is one transaction under the run's lock or   *)
(* the recording's row lock.                                                *)
Answered(m, a) == reply' = IF call = m THEN a ELSE reply

Refuse(m) == Answered(m, [ok |-> FALSE, rec |-> recs[m.no], missing |-> {}])
Accept(m, rec, missing) ==
  /\ recs' = [recs EXCEPT ![m.no] = rec]
  /\ Answered(m, [ok |-> TRUE, rec |-> rec, missing |-> missing])

(* A segment follows a sealed predecessor at the predecessor's final_seq.   *)
Follows_Sealed(m) ==
  /\ runEnded = "no"
  /\ m.no > 1 => recs[m.no - 1].state = "sealed"

Follows(m) ==
  /\ runEnded = "no"
  /\ m.no > 1 => recs[m.no - 1].state = "sealed" /\ recs[m.no - 1].final = m.base

CreateRecording_Overwrite(m) ==
  /\ m.type = "create"
  /\ IF Follows(m)
     THEN Accept(m, [NoRecording EXCEPT !.state = "open", !.base = m.base,
                                        !.durable = m.base], {})
     ELSE Refuse(m) /\ UNCHANGED recs
  /\ UNCHANGED <<runEnded, blobs, overlap, refused>>

CreateRecording(m) ==
  /\ m.type = "create"
  /\ LET rec == recs[m.no]
     IN  CASE rec.state = "none" /\ Follows(m) ->
                Accept(m, [NoRecording EXCEPT !.state = "open", !.base = m.base,
                                              !.durable = m.base], {})
           [] rec.state # "none" /\ rec.base = m.base -> Accept(m, rec, {})
           [] OTHER -> Refuse(m) /\ UNCHANGED recs
  /\ UNCHANGED <<runEnded, blobs, overlap, refused>>

GetRecording(m) ==
  /\ m.type = "get"
  /\ IF recs[m.no].state = "none" THEN Refuse(m) ELSE Accept(m, recs[m.no], {})
  /\ UNCHANGED serverVars

Advance_Last(rec, batches) ==
  CHOOSE n \in {b[2] : b \in batches} : \A b \in batches : b[2] <= n

(* durable_seq moves over every batch that follows without a gap.           *)
Advance(rec, batches) ==
  CHOOSE n \in {rec.durable} \cup {b[2] : b \in batches} :
    /\ \A k \in rec.durable + 1 .. n : \E b \in batches : k \in b[1] .. b[2]
    /\ ~\E b \in batches : b[1] = n + 1

TooLate(rec, b) == rec.state = "sealed" /\ (rec.final = Null \/ b[2] > rec.final)

Missing_None(b) == {}
Missing(b) == Bodies(b) \ blobs

UploadBatch(m) ==
  /\ m.type = "batch"
  /\ LET rec == recs[m.no]
         b == m.batch
         all == rec.batches \cup {b}
     IN  CASE rec.state = "none" \/ b[1] <= rec.base ->
                Refuse(m) /\ UNCHANGED <<recs, overlap, refused>>
           [] rec.state # "none" /\ b[1] > rec.base /\ TooLate(rec, b) ->
                /\ Refuse(m) /\ refused' = (refused \/ rec.final = Null)
                /\ UNCHANGED <<recs, overlap>>
           [] rec.state # "none" /\ ~TooLate(rec, b) /\ b \in rec.batches ->
                Accept(m, rec, {}) /\ UNCHANGED <<overlap, refused>>
           [] OTHER ->
                IF \E c \in rec.batches : c[1] <= b[2] /\ c[2] >= b[1]
                THEN /\ Refuse(m) /\ overlap' = TRUE
                     /\ UNCHANGED <<recs, refused>>
                ELSE /\ Accept(m, [rec EXCEPT !.batches = all,
                                              !.durable = Advance(rec, all),
                                              !.missing = @ \cup Missing(b)],
                               Missing(b))
                     /\ UNCHANGED <<overlap, refused>>
  /\ UNCHANGED <<runEnded, blobs>>

CanSeal(m) ==
  LET rec == recs[m.no]
  IN  /\ rec.state # "none"
      /\ m.final >= rec.durable /\ m.final > rec.base
      /\ m.runFinal => \A n \in m.no + 1 .. MaxSegments : recs[n].state = "none"
      /\ rec.state = "sealed" => rec.final = m.final

Seal(m) ==
  /\ m.type = "seal"
  /\ IF CanSeal(m)
     THEN /\ Accept(m, [recs[m.no] EXCEPT !.state = "sealed", !.final = m.final], {})
          /\ runEnded' = IF m.runFinal THEN "run" ELSE runEnded
     ELSE Refuse(m) /\ UNCHANGED <<recs, runEnded>>
  /\ UNCHANGED <<blobs, overlap, refused>>

Handle(m) == CreateRecording(m) \/ GetRecording(m) \/ UploadBatch(m) \/ Seal(m)

Serve(m) ==
  /\ m \in net /\ Handle(m)
  /\ net' = net \ {m}
  /\ UNCHANGED <<localVars, segs, st, op, call, faults>>

(* A second copy of the request, from a retry, is still on its way.         *)
ServeCopy(m) ==
  /\ m \in net /\ Handle(m)
  /\ m.type = "seal" => LateSeal
  /\ faults < MaxFaults /\ faults' = faults + 1
  /\ UNCHANGED <<localVars, segs, st, op, call, net>>

Lose(m) ==
  /\ m \in net /\ faults < MaxFaults /\ faults' = faults + 1
  /\ net' = net \ {m}
  /\ UNCHANGED <<localVars, clientVars, serverVars>>

LoseReply ==
  /\ reply # NoReply /\ faults < MaxFaults /\ faults' = faults + 1
  /\ reply' = NoReply
  /\ UNCHANGED <<localVars, segs, st, op, call, net, serverVars>>

(* The decode job of a batch sets ended_at when it meets an event named     *)
(* run_end or run_finished, whoever recorded it, before or after the        *)
(* recording is sealed.  The last event of a run that is over may be such   *)
(* an event; in a run that ended without it the step is not taken.          *)
DecodeRunFinished ==
  /\ LET decoded == UNION {b[1] .. b[2] : b \in UNION {recs[n].batches : n \in Segments}}
     IN  \/ /\ ended /\ avail \in decoded /\ runEnded # "run"
            /\ runEnded' = "run"
         \/ /\ HookEnds \cap decoded # {} /\ runEnded = "no"
            /\ runEnded' = "hook"
  /\ UNCHANGED <<localVars, clientVars, net, recs, blobs, overlap, refused, faults>>

(* SweepStatus: an open recording without news for the window is sealed,    *)
(* its final_seq left null.                                                 *)
SweepStatus(n) ==
  /\ AutoSeal /\ recs[n].state = "open"
  /\ recs' = [recs EXCEPT ![n].state = "sealed"]
  /\ UNCHANGED <<localVars, clientVars, net, runEnded, blobs, overlap, refused,
                 faults>>

(* Retention deletes a blob no recording of the project refers to any more. *)
ReclaimBlob(b) ==
  /\ Reclaim /\ b \in blobs
  /\ \A n \in Segments : \A c \in recs[n].batches : b \notin Bodies(c)
  /\ blobs' = blobs \ {b}
  /\ UNCHANGED <<localVars, clientVars, net, recs, runEnded, overlap, refused,
                 faults>>

-----------------------------------------------------------------------------
Uploader ==
  \/ SendCreate \/ Created \/ SendGet \/ Reconcile \/ NextSegment \/ Plan
  \/ EnsureBlobs \/ SendBatch \/ Acked \/ Finish \/ SendSeal \/ SealAnswered
  \/ Confirm \/ Resend

Next ==
  \/ Record \/ End
  \/ upload_run
  \/ \E mode \in {"flush", "roll"}, bound \in 1 .. MaxSeq : upload_active_segment(mode, bound)
  \/ \E n \in Segments, range \in Batch : Backfill(n, range)
  \/ Uploader
  \/ Pause \/ Abort
  \/ \E m \in net : Serve(m) \/ ServeCopy(m) \/ Lose(m)
  \/ LoseReply
  \/ DecodeRunFinished
  \/ \E n \in Segments : SweepStatus(n)
  \/ \E b \in Blobs : ReclaimBlob(b)

Spec == Init /\ [][Next]_vars

(* The collector's loop uploads an ended run again and again until it is    *)
(* complete; an operation goes on as long as its answers come; what is sent *)
(* is delivered.                                                            *)
Fairness ==
  /\ WF_vars(Uploader)
  /\ SF_vars(upload_run /\ ~verify_uploaded_retention_gate)
  /\ WF_vars(\E m \in net : Serve(m))
  /\ WF_vars(End)

FairSpec == Spec /\ Fairness

-----------------------------------------------------------------------------
(* Every variable keeps its type, and a wait is a wait for a sent request.  *)
TypeOK ==
  /\ avail \in Seqs /\ ended \in BOOLEAN
  /\ segs \in Seq(UploadState) /\ Len(segs) <= MaxSegments
  /\ st \in UploadState /\ op \in Operation
  /\ call \in Request \cup {NoCall} /\ reply \in Answer \cup {NoReply}
  /\ net \subseteq Request /\ recs \in [Segments -> Recording]
  /\ runEnded \in {"no", "run", "hook"} /\ blobs \subseteq Blobs
  /\ {overlap, refused} \subseteq BOOLEAN
  /\ faults \in 0 .. MaxFaults
  /\ op.pc = "idle" => call = NoCall

(* A plan is on disk before a batch of it leaves, so whatever dies, is lost *)
(* or arrives again, the platform never sees two batches that overlap       *)
(* (UploadBatch never answers batch_overlap).                               *)
FixedPlan == ~overlap

(* What the spool records as acknowledged, the platform has: every event up *)
(* to acked_seq lies in a batch of the recording.                           *)
AckedIsDurable ==
  \A n \in DOMAIN segs : \A e \in segs[n].first .. segs[n].acked :
    \E b \in recs[n].batches : e \in b[1] .. b[2]

(* When the retention gate lets the local run go, its events are on the     *)
(* platform, each in exactly one recording, and every recording of the run  *)
(* is sealed.                                                               *)
RetentionSafe ==
  verify_uploaded_retention_gate =>
    /\ \A e \in 1 .. avail :
         Cardinality({n \in Segments :
           \E b \in recs[n].batches : e \in b[1] .. b[2]}) = 1
    /\ \A n \in Segments : recs[n].state # "open"

(* The recordings of a run continue one another: a segment starts where its *)
(* sealed predecessor ends, and the predecessor is complete.                *)
SegmentsTile ==
  \A n \in Segments \ {1} : recs[n].state # "none" =>
    /\ recs[n - 1].final = recs[n].base
    /\ recs[n - 1].durable = recs[n].base

(* The run itself ends the capture run on the platform, by its final seal   *)
(* or its run_finished event, only when it is over and its last event is    *)
(* stored: no segment is left to create, which CreateRecording would refuse *)
(* from then on.  An event that a hook gave such a name may end it earlier. *)
RunEndIsComplete ==
  runEnded = "run" => /\ ended
                      /\ \E n \in Segments : \E b \in recs[n].batches : b[2] = avail

(* A sealed recording ends where the uploader's plan of that segment ends:  *)
(* the uploader can always resume.                                          *)
SealedAtPlan ==
  \A n \in Segments : recs[n].final # Null =>
    n \in DOMAIN segs /\ planned_sequence(segs[n]) = recs[n].final

(* A blob a stored batch refers to is on the platform or listed in the      *)
(* recording's missing_blobs.                                               *)
MissingIsListed ==
  \A n \in Segments : \A b \in recs[n].batches :
    Bodies(b) \subseteq blobs \cup recs[n].missing

(* No batch counts as acknowledged while the platform misses one of its     *)
(* blobs, as validate_ack demands of every acknowledgement.                 *)
AckedHasBlobs ==
  \A n \in DOMAIN segs : \A b \in recs[n].batches :
    b[2] <= segs[n].acked => Bodies(b) \cap recs[n].missing = {}

(* The platform never takes back what it has accepted: durable_seq and the  *)
(* stored batches only grow, a final_seq is never changed, and an ended run *)
(* gets no new recording.                                                   *)
NothingTakenBack ==
  [][\A n \in Segments :
       /\ recs[n].batches \subseteq recs'[n].batches
       /\ recs[n].durable <= recs'[n].durable
       /\ recs[n].final # Null => recs'[n].final = recs[n].final
       /\ runEnded # "no" /\ recs[n].state = "none" => recs'[n].state = "none"]_vars

(* A batch of a recording the platform sealed by itself is still accepted.  *)
LateBatchesAccepted == ~refused

(* A run that has ended is uploaded and sealed in the end.                  *)
UploadCompletes == ended ~> verify_uploaded_retention_gate

(* A run that has ended is also ended on the platform: its last segment is  *)
(* sealed with run_final and the manifest.                                  *)
RunIsFinalized == ended ~> runEnded # "no"
=============================================================================
