--------------------------- MODULE SharedJournal ---------------------------
(***************************************************************************)
(* What mutation sync promises the devices of one project: a journal that  *)
(* only grows, in strictly increasing sequence order, holding every        *)
(* mutation at most once, and readers whose cursor never passes an entry   *)
(* the reader does not hold.  A cursor may go back: a reader of which two  *)
(* processes run reads some entries twice.                                 *)
(*                                                                         *)
(* MutationSync implements it: journal is hive-api's memory_mutations,     *)
(* read is the daemon's mutation cursor and known is the daemon's own      *)
(* memory_mutations table.                                                 *)
(***************************************************************************)
EXTENDS Naturals

CONSTANTS Device, Mutation

VARIABLES
  journal,  \* published entries [seq, mut]
  read,     \* read[d]: the sequence up to which d has read
  known     \* known[d]: the mutations d has recorded locally

vars == <<journal, read, known>>

Entry == [seq : Nat \ {0}, mut : Mutation]

Published == {x.mut : x \in journal}

Init ==
  /\ journal = {}
  /\ read = [d \in Device |-> 0]
  /\ known = [d \in Device |-> {}]

(* A user of device d makes a change nobody has seen.                      *)
Author(d, m) ==
  /\ m \in Mutation /\ m \notin Published
  /\ \A o \in Device : m \notin known[o]
  /\ known' = [known EXCEPT ![d] = @ \union {m}]
  /\ UNCHANGED <<journal, read>>

(* A batch of changes some device recorded becomes visible at once, after  *)
(* everything that is already visible and everything anyone has read.      *)
Publish(batch) ==
  /\ batch # {}
  /\ \A x \in batch :
       /\ x \in Entry
       /\ x.mut \notin Published
       /\ \E d \in Device : x.mut \in known[d]
       /\ \A y \in journal : y.seq < x.seq
       /\ \A d \in Device : read[d] < x.seq
       /\ \A y \in batch : (y.seq = x.seq \/ y.mut = x.mut) => y = x
  /\ journal' = journal \union batch
  /\ UNCHANGED <<read, known>>

Learn(d, x) ==
  /\ known' = [known EXCEPT ![d] = @ \union {x.mut}]
  /\ UNCHANGED <<journal, read>>

(* The cursor moves, to where d holds all that is behind it.               *)
Move(d, to) ==
  /\ to \in Nat
  /\ \A x \in journal : x.seq <= to => x.mut \in known[d]
  /\ read' = [read EXCEPT ![d] = to]
  /\ UNCHANGED <<journal, known>>

(* What a step adds and where a cursor moves are read off the next state:  *)
(* any other choice would not lead there.                                  *)
Next ==
  \/ \E d \in Device :
       \/ \E m \in known'[d] \ known[d] : Author(d, m)
       \/ \E x \in journal : Learn(d, x)
       \/ Move(d, read'[d])
  \/ Publish(journal' \ journal)

Spec == Init /\ [][Next]_vars
=============================================================================
