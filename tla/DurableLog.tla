----------------------------- MODULE DurableLog -----------------------------
(***************************************************************************)
(* What the recorder's event log promises to the tasks that append to it   *)
(* and to the readers of a finished run, without files, batches, channels  *)
(* or crashes: a sequence of events that grows at its end, and a set of    *)
(* acknowledged positions.  A failure may take unacknowledged events off   *)
(* the end; an acknowledged position keeps its event for good.             *)
(***************************************************************************)
EXTENDS Naturals, Sequences

CONSTANT Events

VARIABLES
  log,    \* the events, in the order of their sequence numbers
  acked   \* the acknowledged appends: [ev, seq]

vars == <<log, acked>>

Prefix(s, t) == Len(s) <= Len(t) /\ \A i \in 1..Len(s) : s[i] = t[i]
Holds(l, a) == a.seq \in 1..Len(l) /\ l[a.seq] = a.ev

Init == log = <<>> /\ acked = {}

(* New events reach the end of the log.                                     *)
Grow ==
  /\ log' \in Seq(Events) /\ Prefix(log, log')
  /\ acked' = acked

(* Events that the log holds are acknowledged.                              *)
Acknowledge ==
  /\ log' = log
  /\ acked \subseteq acked'
  /\ \A a \in acked' \ acked : Holds(log, a)

(* A crash takes events off the end, no acknowledged one among them.        *)
Lose ==
  /\ log' \in Seq(Events) /\ Prefix(log', log)
  /\ \A a \in acked : Holds(log', a)
  /\ acked' = acked

Next == Grow \/ Acknowledge \/ Lose

Spec == Init /\ [][Next]_vars

-----------------------------------------------------------------------------
(* Every acknowledged append is in the log at its sequence number.          *)
AckedHeld == \A a \in acked : Holds(log, a)
=============================================================================
