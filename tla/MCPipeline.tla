----------------------------- MODULE MCPipeline -----------------------------
(* Instances of Pipeline for TLC. *)
EXTENDS Pipeline, TLC

CONSTANTS dec1, asm1, asm2, nrm1, nrm2, res1

(* Worker pools: two goroutines for assemble and for normalize, one for    *)
(* the others.                                                             *)
MCWorkers == {dec1, asm1, asm2, nrm1, nrm2, res1}
MCServes == [w \in MCWorkers |-> CASE w = dec1 -> "decode"
                                   [] w \in {asm1, asm2} -> "assemble"
                                   [] w \in {nrm1, nrm2} -> "normalize"
                                   [] w = res1 -> "resolve"]
MCSymmetry == Permutations({asm1, asm2}) \union Permutations({nrm1, nrm2})

(* One crash, failure, lost report, lost lock or stalled lease in a        *)
(* behaviour, and at most three goroutines busy at a time.                 *)
OneMishap ==
    /\ budget.faults + budget.stalls > 0
    /\ Cardinality({w \in Workers : worker[w].pc # "idle"}) <= 3

(* One goroutine for each stage. *)
SerialWorkers == {dec1, asm1, nrm1, res1}
SerialServes == [w \in SerialWorkers |-> CASE w = dec1 -> "decode"
                                           [] w = asm1 -> "assemble"
                                           [] w = nrm1 -> "normalize"
                                           [] w = res1 -> "resolve"]

(* The default pools have four goroutines for assemble; two are enough to  *)
(* assemble two batches of a stream at the same time.                      *)
ParallelWorkers == SerialWorkers \union {asm2}
ParallelServes == [w \in ParallelWorkers |->
                     IF w = asm2 THEN "assemble" ELSE SerialServes[w]]

(* For the liveness run: three batches without a fault, or a fault with    *)
(* the first two.  A deleted run satisfies BatchesAreResolved for good, so *)
(* what its workers still do needs no look.  Only steps without fairness   *)
(* are cut off: registrations, faults, the deletion.                       *)
FaultOrThird == active /\ (budget.faults = MaxFaults \/ NBatches \notin Registered)

(* Behaviours in which one goroutine works at a time are enough to lose a  *)
(* batch behind a dead job.                                                *)
OneAtATime == Cardinality({w \in Workers : worker[w].pc # "idle"}) <= 1
=============================================================================
