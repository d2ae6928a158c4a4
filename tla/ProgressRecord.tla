--------------------------- MODULE ProgressRecord ---------------------------
(***************************************************************************)
(* What the apply-progress of one change promises: one history, written    *)
(* once, to which items of work are only ever appended; a copy that        *)
(* follows it entry by entry and never shows another one; and              *)
(* acknowledgements of what both hold.                                     *)
(***************************************************************************)
EXTENDS Naturals, Sequences

CONSTANT Item      \* items of work of the change

VARIABLES log, copy, acked

record == <<log, copy, acked>>

\* s is the history t, or an earlier state of it.
Prefix(s, t) == Len(s) <= Len(t) /\ \A i \in 1 .. Len(s) : s[i] = t[i]
\* The item i is in the history s.
Holds(s, i) == \E k \in 1 .. Len(s) : s[k] = i

RecordInit == log = <<>> /\ copy = <<>> /\ acked = {}

Write(i) ==
  /\ ~Holds(log, i)
  /\ log' = Append(log, i)
  /\ UNCHANGED <<copy, acked>>

Mirror ==
  /\ Len(copy) < Len(log)
  /\ copy' = Append(copy, log[Len(copy) + 1])
  /\ UNCHANGED <<log, acked>>

Acknowledge(s) ==
  /\ Prefix(s, log) /\ Prefix(s, copy)
  /\ acked' = acked \union {s}
  /\ UNCHANGED <<log, copy>>

RecordNext ==
  \/ \E i \in Item : Write(i)
  \/ Mirror
  \/ \E n \in 1 .. Len(log) : Acknowledge(SubSeq(log, 1, n))

RecordSpec == RecordInit /\ [][RecordNext]_record
=============================================================================
