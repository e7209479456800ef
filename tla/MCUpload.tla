------------------------------ MODULE MCUpload ------------------------------
(* Instances of Upload for TLC.                                             *)
EXTENDS Upload, TLC

CONSTANT body

(* The second event refers to a blob another recording has brought.         *)
MCBody == [e \in 1 .. MaxSeq |-> IF e = 2 THEN body ELSE NoBlob]

(* At most two mishaps in a behaviour: faults, automatic seals, a run ended *)
(* by a hook.                                                               *)
TwoMishaps ==
  LET seals == {n \in Segments : recs[n].state = "sealed" /\ recs[n].final = Null}
      hook == IF runEnded = "hook" THEN 1 ELSE 0
  IN  faults + Cardinality(seals) + hook <= 2
=============================================================================
