-------------------------- MODULE Quarantine_proofs --------------------------
(***************************************************************************)
(* Proofs about Quarantine, for any projects, drains and processes: type   *)
(* correctness, that a command a device reported as applied stays behind   *)
(* it, that an archive of the user's own survives, and that a block        *)
(* acknowledged as applied is archived, unless a drain that read an older  *)
(* unblock restores the project over it.                                   *)
(*                                                                         *)
(* The argument: a row's generation only rises, and every acknowledgement  *)
(* in a drain's hands is of a generation the row has reached.  A marker,   *)
(* or a drain about to write one, says that the archive is the             *)
(* quarantine's, and there is at most one of these per project.  Every     *)
(* acknowledgement of the row's own generation says what the archive is.   *)
(***************************************************************************)
EXTENDS Quarantine, TLAPS

(* Resending what is owed, or working through the inbox.                   *)
Resending(r) == pc[r] \in {"retry", "retried"}

Behind(a) == a.g <= row[a.p].gen
Issued(a) == a.g \in 1 .. Latest(a.p)

TodoOf(r) ==
  \A a \in todo[r] : IF Resending(r) THEN a.status # "none" /\ Behind(a) ELSE Issued(a)

Handling == {"retried", "apply", "archive", "restore", "mark", "pending",
             "send", "settle"}

CurrentOf(r) ==
  /\ pc[r] \in Handling =>
       current[r] \in Ack /\ current[r].status # "none" /\ Behind(current[r])
  /\ pc[r] = "refused" => current[r] \in Ack /\ Issued(current[r])

InHand == \A r \in Drain : TodoOf(r) /\ CurrentOf(r)

(* Whose an archive is.                                                    *)
Owned ==
  /\ \A p \in Project : marker[p] => archived[p] = "quarantine"
  /\ \A r \in Drain : pc[r] = "mark" =>
       archived[current[r].p] = "quarantine" /\ ~marker[current[r].p]
  /\ \A r, s \in Drain :
       r # s /\ pc[r] = "mark" /\ pc[s] = "mark" => current[r].p # current[s].p

IInv == TypeOK /\ InHand /\ Owned /\ AppliedStays

-----------------------------------------------------------------------------
(* Frames.  What a step may do to what the invariants speak of.            *)

Rises ==
  \A p \in Project : row[p].gen <= row'[p].gen /\ Latest(p) <= Latest(p)'

(* Only drain r is disturbed.                                              *)
OnlyOf(r) ==
  \A s \in Drain \ {r} : pc'[s] = pc[s] /\ todo'[s] = todo[s] /\ current'[s] = current[s]

LEMMA CountType ==
  ASSUME TypeOK
  PROVE  \A p \in Project : row[p].gen \in Nat /\ Latest(p) \in Nat
<1>1. \A p \in Project : row[p].gen \in Nat
  BY DEF TypeOK, DeviceType, RowType
<1>2. \A p \in Project : commands[p] \in Seq(Action)
  BY DEF TypeOK, ServerType
<1>3. \A s \in Seq(Action) : Len(s) \in Nat
  OBVIOUS
<1> QED BY <1>1, <1>2, <1>3 DEF Latest

LEMMA SameRises ==
  ASSUME TypeOK, UNCHANGED <<commands, row>>
  PROVE  Rises
<1>1. \A p \in Project : row'[p].gen = row[p].gen /\ Latest(p)' = Latest(p)
  BY DEF Latest
<1> QED BY <1>1, CountType DEF Rises

(* What another drain has in hand stays behind the row.                    *)
LEMMA OthersInHand ==
  ASSUME TypeOK, TypeOK', InHand, Rises, NEW r \in Drain, OnlyOf(r),
         TodoOf(r)', CurrentOf(r)'
  PROVE  InHand'
<1>1. SUFFICES ASSUME NEW s \in Drain \ {r} PROVE TodoOf(s)' /\ CurrentOf(s)'
  BY <1>1 DEF InHand
<1>2. pc'[s] = pc[s] /\ todo'[s] = todo[s] /\ current'[s] = current[s]
  BY DEF OnlyOf
<1>3. TodoOf(s) /\ CurrentOf(s)
  BY DEF InHand
<1>4. \A a \in Ack : Behind(a) => Behind(a)'
  <2>1. SUFFICES ASSUME NEW a \in Ack, Behind(a) PROVE Behind(a)'
    OBVIOUS
  <2>2. a.p \in Project /\ a.g \in Nat BY DEF Ack
  <2>3. row[a.p].gen \in Nat /\ row'[a.p].gen \in Nat
    BY <2>2 DEF TypeOK, DeviceType, RowType
  <2> QED BY <2>1, <2>2, <2>3 DEF Behind, Rises
<1>5. \A a \in Ack : Issued(a) => Issued(a)'
  <2>1. SUFFICES ASSUME NEW a \in Ack, Issued(a) PROVE Issued(a)'
    OBVIOUS
  <2>2. a.p \in Project /\ a.g \in Nat BY DEF Ack
  <2>3. Latest(a.p) \in Nat /\ Latest(a.p)' \in Nat
    BY <2>2 DEF TypeOK, ServerType, Latest
  <2> QED BY <2>1, <2>2, <2>3 DEF Issued, Rises
<1>6. todo[s] \subseteq Ack
  BY DEF TypeOK, DrainsType
<1>7. TodoOf(s)'
  BY <1>2, <1>3, <1>4, <1>5, <1>6 DEF TodoOf, Resending
<1>8. CurrentOf(s)'
  BY <1>2, <1>3, <1>4, <1>5 DEF CurrentOf
<1> QED BY <1>7, <1>8

(* Nothing new is archived, marked or about to be.                         *)
LEMMA SameOwned ==
  ASSUME Owned, UNCHANGED <<archived, marker>>,
         \A s \in Drain : pc'[s] = "mark" => pc[s] = "mark" /\ current'[s] = current[s]
  PROVE  Owned'
BY DEF Owned

LEMMA SameApplied ==
  ASSUME TypeOK, TypeOK', AppliedStays, Rises, UNCHANGED acks
  PROVE  AppliedStays'
<1>1. SUFFICES ASSUME NEW p \in Project, NEW g \in DOMAIN acks[p],
                      acks[p][g] = "applied"
               PROVE  g <= row'[p].gen
  BY DEF AppliedStays
<1>2. g <= row[p].gen BY <1>1 DEF AppliedStays
<1>3. g \in Nat
  BY QuarantineAssumption DEF TypeOK, ServerType
<1>4. row[p].gen \in Nat /\ row'[p].gen \in Nat
  BY DEF TypeOK, DeviceType, RowType
<1> QED BY <1>2, <1>3, <1>4 DEF Rises

(* The server is told of a command the device has reached.                 *)
LEMMA RecordedApplied ==
  ASSUME TypeOK, AppliedStays, NEW a \in Ack, Behind(a), RecordAck(a),
         UNCHANGED <<commands, delivered, row>>
  PROVE  ServerType' /\ AppliedStays'
<1>1. a.p \in Project /\ a.g \in Nat /\ a.status \in AckStatus
  BY DEF Ack
<1>2. DOMAIN acks' = Project
  BY DEF RecordAck, TypeOK, ServerType
<1>3. /\ \A p \in Project \ {a.p} : acks'[p] = acks[p]
      /\ acks'[a.p] = [acks[a.p] EXCEPT ![a.g] = a.status]
  BY <1>1 DEF RecordAck, TypeOK, ServerType
<1>4. \A p \in Project : acks'[p] \in [1 .. MaxCommands[p] -> AckStatus]
  <2>1. acks[a.p] \in [1 .. MaxCommands[a.p] -> AckStatus]
    BY <1>1 DEF TypeOK, ServerType
  <2>2. acks'[a.p] \in [1 .. MaxCommands[a.p] -> AckStatus]
    BY <1>1, <1>3, <2>1
  <2>3. \A p \in Project \ {a.p} : acks'[p] \in [1 .. MaxCommands[p] -> AckStatus]
    BY <1>3 DEF TypeOK, ServerType
  <2> QED BY <2>2, <2>3
<1>5. ServerType'
  <2>1. Command' = Command BY DEF Command, Latest
  <2> QED BY <1>2, <1>4, <2>1 DEF TypeOK, ServerType
<1>6. AppliedStays'
  <2>1. SUFFICES ASSUME NEW p \in Project, NEW g \in DOMAIN acks'[p],
                        acks'[p][g] = "applied"
                 PROVE  g <= row[p].gen
    BY DEF AppliedStays
  <2>2. DOMAIN acks'[p] = DOMAIN acks[p]
    BY <1>4 DEF TypeOK, ServerType
  <2>3. CASE p = a.p /\ g = a.g
    BY <2>3 DEF Behind
  <2>4. CASE ~(p = a.p /\ g = a.g)
    <3>1. acks'[p][g] = acks[p][g]
      BY <1>3, <2>2, <2>4
    <3> QED BY <2>1, <2>2, <3>1 DEF AppliedStays
  <2> QED BY <2>3, <2>4
<1> QED BY <1>5, <1>6

(* A drain whose inbox, row and server stay as they are moves on.          *)
LEMMA StepQuiet ==
  ASSUME IInv, NEW r \in Drain, OnlyOf(r), DrainsType',
         UNCHANGED <<commands, delivered, acks, row, archived, marker, holds>>,
         TodoOf(r)', CurrentOf(r)',
         pc'[r] # "mark"
  PROVE  IInv'
<1>1. Rises BY SameRises DEF IInv
<1>2. ServerType'
  <2>1. Command' = Command BY DEF Command, Latest
  <2> QED BY <2>1 DEF IInv, TypeOK, ServerType
<1>3. TypeOK' BY <1>2 DEF IInv, TypeOK, DeviceType
<1>4. InHand' BY <1>1, <1>3, OthersInHand DEF IInv
<1>5. Owned' BY SameOwned DEF IInv, OnlyOf
<1>6. AppliedStays' BY <1>1, <1>3, SameApplied DEF IInv
<1> QED BY <1>3, <1>4, <1>5, <1>6 DEF IInv

LEMMA EndFrame ==
  ASSUME DrainsType, NEW r \in Drain, NEW how \in {"none", "synced", "failed"},
         End(r, how), faults' \in 0 .. MaxFaults
  PROVE  /\ DrainsType' /\ OnlyOf(r) /\ TodoOf(r)' /\ CurrentOf(r)'
         /\ pc'[r] = "idle"
<1>1. /\ pc'[r] = "idle" /\ todo'[r] = {}
      /\ OnlyOf(r)
  BY DEF End, DrainsType, OnlyOf
<1>2. DrainsType'
  BY DEF End, DrainsType, Step
<1>3. TodoOf(r)' /\ CurrentOf(r)'
  BY <1>1 DEF TodoOf, CurrentOf, Handling
<1> QED BY <1>1, <1>2, <1>3

-----------------------------------------------------------------------------
(* Each action keeps the invariant.                                        *)

LEMMA OwedType ==
  ASSUME TypeOK, NEW p \in Project
  PROVE  Owed(p) \in Ack /\ Owed(p).status # "none" /\ Behind(Owed(p))
<1>1. row[p] \in RowType BY DEF TypeOK, DeviceType
<1>2. Owed(p) \in Ack BY <1>1 DEF RowType, Owed, Ack, AckStatus
<1>3. Owed(p).p = p /\ Owed(p).g = row[p].gen /\ Owed(p).status # "none"
  BY DEF Owed
<1>4. Behind(Owed(p)) BY <1>1, <1>3 DEF Behind, RowType
<1> QED BY <1>2, <1>3, <1>4

LEMMA StartDrainInv ==
  ASSUME IInv, NEW r \in Drain, StartDrain(r)
  PROVE  IInv'
<1> DEFINE T == {Owed(p) : p \in {q \in Project : row[q].pending}}
<1>1. \A a \in T : a \in Ack /\ a.status # "none" /\ Behind(a)
  BY OwedType DEF IInv
<1> HIDE DEF T
<1>2. /\ pc' = [pc EXCEPT ![r] = "retry"]
      /\ todo' = [todo EXCEPT ![r] = T]
      /\ UNCHANGED <<server, device, via, current, ended, faults>>
  BY DEF StartDrain, T
<1>3. pc'[r] = "retry" /\ todo'[r] = T /\ OnlyOf(r)
  BY <1>2 DEF OnlyOf, IInv, TypeOK, DrainsType
<1>4. DrainsType'
  BY <1>1, <1>2 DEF IInv, TypeOK, DrainsType, Step
<1>5. TodoOf(r)'
  BY <1>1, <1>2, <1>3 DEF TodoOf, Resending, Behind, device
<1>6. CurrentOf(r)' BY <1>3 DEF CurrentOf, Handling
<1> QED BY <1>2, <1>3, <1>4, <1>5, <1>6, StepQuiet DEF server, device

LEMMA RetriesDoneInv ==
  ASSUME IInv, NEW r \in Drain, RetriesDone(r)
  PROVE  IInv'
<1>1. pc'[r] = "poll" /\ todo'[r] = {} /\ OnlyOf(r)
  BY DEF RetriesDone, OnlyOf, IInv, TypeOK, DrainsType
<1>2. DrainsType' BY DEF RetriesDone, IInv, TypeOK, DrainsType, Step
<1>3. TodoOf(r)' /\ CurrentOf(r)' BY <1>1 DEF TodoOf, CurrentOf, Handling
<1> QED BY <1>1, <1>2, <1>3, StepQuiet DEF RetriesDone, server, device

LEMMA ReadRowInv ==
  ASSUME IInv, NEW r \in Drain, ReadRow(r)
  PROVE  IInv'
<1>1. pc'[r] \in {"archive", "restore"} /\ OnlyOf(r)
  BY DEF ReadRow, OnlyOf, IInv, TypeOK, DrainsType
<1>2. DrainsType' BY DEF ReadRow, IInv, TypeOK, DrainsType, Step
<1>3. TodoOf(r) /\ CurrentOf(r) /\ pc[r] = "apply"
  BY DEF IInv, InHand, ReadRow
<1>4. /\ TodoOf(r)'
      /\ CurrentOf(r)'
  BY <1>1, <1>3
  DEF TodoOf, CurrentOf, Handling, Resending, Behind, Issued, Latest, ReadRow,
      server, device
<1> QED BY <1>1, <1>2, <1>4, StepQuiet DEF ReadRow, server, device

LEMMA PollInv ==
  ASSUME IInv, NEW r \in Drain, Poll(r)
  PROVE  IInv'
<1> DEFINE T == {[p |-> c[1], g |-> c[2], real |-> TRUE, status |-> "none"] : c \in Listed}
<1>1. \A c \in Command : c[1] \in Project /\ c[2] \in 1 .. Latest(c[1])
  BY DEF Command
<1>2. \A a \in T : a \in Ack /\ Issued(a)
  <2>1. SUFFICES ASSUME NEW c \in Command
                 PROVE  LET a == [p |-> c[1], g |-> c[2], real |-> TRUE, status |-> "none"]
                        IN  a \in Ack /\ Issued(a)
    BY DEF Listed
  <2>2. c[1] \in Project /\ c[2] \in 1 .. Latest(c[1]) /\ Latest(c[1]) \in Nat
    BY <1>1, CountType DEF IInv
  <2> QED BY <2>2 DEF Ack, AckStatus, Issued
<1> HIDE DEF T
<1>3. /\ pc[r] = "poll"
      /\ delivered' = delivered \union Command
      /\ todo' = [todo EXCEPT ![r] = T]
      /\ pc' = [pc EXCEPT ![r] = "inbox"]
      /\ UNCHANGED <<commands, acks, device, via, current, ended, faults>>
  BY DEF Poll, T
<1>4. pc'[r] = "inbox" /\ todo'[r] = T /\ OnlyOf(r)
  BY <1>3 DEF OnlyOf, IInv, TypeOK, DrainsType
<1>5. TypeOK'
  <2>1. Command' = Command BY <1>3 DEF Command, Latest
  <2>2. ServerType' BY <1>3, <2>1 DEF IInv, TypeOK, ServerType
  <2>3. DeviceType' BY <1>3 DEF IInv, TypeOK, DeviceType, device
  <2>4. DrainsType' BY <1>2, <1>3 DEF IInv, TypeOK, DrainsType, Step
  <2> QED BY <2>2, <2>3, <2>4 DEF TypeOK
<1>6. Rises BY <1>3, SameRises DEF IInv, device
<1>7. TodoOf(r)' BY <1>2, <1>3, <1>4 DEF TodoOf, Resending, Issued, Latest
<1>8. CurrentOf(r)' BY <1>4 DEF CurrentOf, Handling
<1>9. InHand' BY <1>4, <1>5, <1>6, <1>7, <1>8, OthersInHand DEF IInv
<1>10. Owned' BY <1>3, <1>4, SameOwned DEF IInv, OnlyOf, device
<1>11. AppliedStays' BY <1>3, <1>5, <1>6, SameApplied DEF IInv
<1> QED BY <1>5, <1>9, <1>10, <1>11 DEF IInv

(* A row that is written keeps its generation or takes a newer one.        *)
LEMMA RowStep ==
  ASSUME TypeOK, NEW p \in Project, NEW v \in RowType, row[p].gen <= v.gen,
         row' = [row EXCEPT ![p] = v], UNCHANGED commands
  PROVE  row' \in [Project -> RowType] /\ row'[p] = v /\ Rises
<1>1. /\ row' \in [Project -> RowType] /\ row'[p] = v
      /\ \A q \in Project \ {p} : row'[q] = row[q]
  BY DEF TypeOK, DeviceType
<1>2. \A q \in Project : Latest(q)' = Latest(q) BY DEF Latest
<1> QED BY <1>1, <1>2, CountType DEF Rises

LEMMA SettleRow ==
  ASSUME TypeOK, NEW a \in Ack, Settle(a), UNCHANGED commands
  PROVE  row' \in [Project -> RowType] /\ Rises
<1>1. CASE IsOf(a)
  <2> DEFINE v == [row[a.p] EXCEPT !.pending = FALSE, !.status = a.status]
  <2>1. a.p \in Project /\ a.status \in AckStatus BY DEF Ack
  <2>2. row[a.p] \in RowType BY <2>1 DEF TypeOK, DeviceType
  <2>3. v \in RowType /\ v.gen = row[a.p].gen BY <2>1, <2>2 DEF RowType
  <2>4. row' = [row EXCEPT ![a.p] = v]
    BY <1>1, <2>1, <2>2 DEF Settle, TypeOK, DeviceType, RowType
  <2>5. row[a.p].gen <= v.gen BY <2>1, <2>3, CountType
  <2> HIDE DEF v
  <2> QED BY <2>1, <2>3, <2>4, <2>5, RowStep
<1>2. CASE ~IsOf(a)
  <2>1. row' = row BY <1>2 DEF Settle
  <2> QED BY <2>1, SameRises DEF TypeOK, DeviceType
<1> QED BY <1>1, <1>2

(* Drain r may have written a row of its own project; the server and the   *)
(* archives are as they were.                                              *)
LEMMA StepRow ==
  ASSUME IInv, NEW r \in Drain, OnlyOf(r), DrainsType',
         row' \in [Project -> RowType], Rises,
         UNCHANGED <<commands, delivered, acks, archived, marker, holds>>,
         TodoOf(r)', CurrentOf(r)',
         pc'[r] # "mark"
  PROVE  IInv'
<1>1. ServerType'
  <2>1. Command' = Command BY DEF Command, Latest
  <2> QED BY <2>1 DEF IInv, TypeOK, ServerType
<1>2. TypeOK' BY <1>1 DEF IInv, TypeOK, DeviceType
<1>3. InHand' BY <1>2, OthersInHand DEF IInv
<1>4. Owned' BY SameOwned DEF IInv, OnlyOf
<1>5. AppliedStays' BY <1>2, SameApplied DEF IInv
<1> QED BY <1>2, <1>3, <1>4, <1>5 DEF IInv

(* Drain r may have told the server something.                             *)
LEMMA StepTold ==
  ASSUME IInv, NEW r \in Drain, OnlyOf(r), DrainsType',
         NEW a \in Ack, Behind(a), RecordAck(a) \/ UNCHANGED acks,
         UNCHANGED <<commands, delivered, row, archived, marker, holds>>,
         TodoOf(r)', CurrentOf(r)',
         pc'[r] # "mark"
  PROVE  IInv'
<1>1. CASE UNCHANGED acks BY <1>1, StepQuiet
<1>2. CASE RecordAck(a)
  <2>1. ServerType' /\ AppliedStays' BY <1>2, RecordedApplied DEF IInv
  <2>2. TypeOK' BY <2>1 DEF IInv, TypeOK, DeviceType
  <2>3. Rises BY SameRises DEF IInv
  <2>4. InHand' BY <2>2, <2>3, OthersInHand DEF IInv
  <2>5. Owned' BY SameOwned DEF IInv, OnlyOf
  <2> QED BY <2>1, <2>2, <2>4, <2>5 DEF IInv
<1> QED BY <1>1, <1>2

(* What stays in r's hands while its row and the server stay.              *)
LEMMA SameInHand ==
  ASSUME NEW r \in Drain, UNCHANGED <<commands, row>>,
         \A a \in todo'[r] : a \in todo[r], Resending(r)' = Resending(r), TodoOf(r)
  PROVE  TodoOf(r)'
<1>1. \A a : Behind(a)' = Behind(a) /\ Issued(a)' = Issued(a)
  BY DEF Behind, Issued, Latest
<1> QED BY <1>1 DEF TodoOf

LEMMA RetryInv ==
  ASSUME IInv, NEW r \in Drain, Retry(r)
  PROVE  IInv'
<1>1. PICK a \in todo[r] :
       /\ todo' = [todo EXCEPT ![r] = @ \ {a}]
       /\ IF Accepted(a)
            THEN /\ RecordAck(a)
                 /\ current' = [current EXCEPT ![r] = a]
                 /\ pc' = [pc EXCEPT ![r] = "retried"]
            ELSE UNCHANGED <<acks, current, pc>>
  BY DEF Retry
<1>2. /\ pc[r] = "retry"
      /\ UNCHANGED <<commands, delivered, row, archived, marker, holds, via,
                     ended, faults>>
  BY DEF Retry, device
<1>3. TodoOf(r) BY DEF IInv, InHand
<1>4. a \in Ack /\ Behind(a) /\ a.status # "none"
  BY <1>2, <1>3 DEF TodoOf, Resending, IInv, TypeOK, DrainsType
<1>5. OnlyOf(r) /\ pc'[r] \in {"retry", "retried"} /\ todo'[r] = todo[r] \ {a}
  BY <1>1, <1>2 DEF OnlyOf, IInv, TypeOK, DrainsType
<1>6. DrainsType'
  <2>1. todo' \in [Drain -> SUBSET Ack] BY <1>1 DEF IInv, TypeOK, DrainsType
  <2>2. CASE Accepted(a)
    BY <1>1, <1>2, <1>4, <2>1, <2>2 DEF IInv, TypeOK, DrainsType, Step
  <2>3. CASE ~Accepted(a)
    BY <1>1, <1>2, <2>1, <2>3 DEF IInv, TypeOK, DrainsType
  <2> QED BY <2>2, <2>3
<1>7. TodoOf(r)' BY <1>2, <1>3, <1>5, SameInHand DEF Resending
<1>8. CurrentOf(r)'
  <2>1. CASE Accepted(a)
    <3>1. current'[r] = a BY <1>1, <2>1 DEF IInv, TypeOK, DrainsType
    <3> QED BY <1>2, <1>4, <1>5, <3>1 DEF CurrentOf, Behind
  <2>2. CASE ~Accepted(a)
    BY <1>1, <1>2, <2>2 DEF CurrentOf, Handling
  <2> QED BY <2>1, <2>2
<1> QED BY <1>1, <1>2, <1>4, <1>5, <1>6, <1>7, <1>8, StepTold

LEMMA RetrySettledInv ==
  ASSUME IInv, NEW r \in Drain, RetrySettled(r)
  PROVE  IInv'
<1>1. CurrentOf(r) /\ TodoOf(r) /\ pc[r] = "retried"
  BY DEF IInv, InHand, RetrySettled
<1>2. current[r] \in Ack BY <1>1 DEF CurrentOf, Handling
<1>3. /\ UNCHANGED <<commands, delivered, acks, archived, marker, holds>>
      /\ Settle(current[r])
  BY DEF RetrySettled, server
<1>4. row' \in [Project -> RowType] /\ Rises
  BY <1>2, <1>3, SettleRow DEF IInv
<1>5. OnlyOf(r) /\ pc'[r] = "retry" /\ todo'[r] = todo[r]
  BY DEF RetrySettled, OnlyOf, IInv, TypeOK, DrainsType
<1>6. DrainsType' BY DEF RetrySettled, IInv, TypeOK, DrainsType, Step
<1>7. \A a \in todo[r] : a.status # "none" /\ Behind(a)'
  <2>1. SUFFICES ASSUME NEW a \in todo[r] PROVE a.status # "none" /\ Behind(a)'
    OBVIOUS
  <2>2. a \in Ack /\ a.status # "none" /\ Behind(a)
    BY <1>1 DEF TodoOf, Resending, IInv, TypeOK, DrainsType
  <2>3. a.p \in Project /\ a.g \in Nat BY <2>2 DEF Ack
  <2>4. row[a.p].gen \in Nat /\ row'[a.p].gen \in Nat
    BY <1>4, <2>3, CountType DEF IInv, RowType
  <2> QED BY <1>4, <2>2, <2>3, <2>4 DEF Behind, Rises
<1>8. TodoOf(r)' BY <1>5, <1>7 DEF TodoOf, Resending
<1>9. CurrentOf(r)' BY <1>5 DEF CurrentOf, Handling
<1> QED BY <1>3, <1>4, <1>5, <1>6, <1>8, <1>9, StepRow

(* What is left of an inbox is still issued.                               *)
LEMMA SameInbox ==
  ASSUME NEW r \in Drain, UNCHANGED commands, TodoOf(r),
         ~Resending(r), ~Resending(r)', todo'[r] \subseteq todo[r]
  PROVE  TodoOf(r)'
<1>1. \A a : Issued(a)' = Issued(a) BY DEF Issued, Latest
<1> QED BY <1>1 DEF TodoOf

LEMMA RecordedType ==
  ASSUME TypeOK, NEW a \in Ack, Issued(a)
  PROVE  /\ Recorded(a) \in RowType
         /\ row[a.p].gen <= Recorded(a).gen /\ a.g <= Recorded(a).gen
<1>1. a.p \in Project /\ a.g \in Nat /\ a.real \in BOOLEAN BY DEF Ack
<1>2. row[a.p] \in RowType /\ row[a.p].gen \in Nat
  BY <1>1, CountType DEF TypeOK, DeviceType
<1>3. commands[a.p][a.g] \in Action
  <2>1. commands[a.p] \in Seq(Action) BY <1>1 DEF TypeOK, ServerType
  <2>2. a.g \in 1 .. Len(commands[a.p]) BY DEF Issued, Latest
  <2>3. \A s \in Seq(Action) : \A i \in 1 .. Len(s) : s[i] \in Action
    OBVIOUS
  <2> QED BY <2>1, <2>2, <2>3
<1>4. CASE IsNewer(a)
  <2>1. Recorded(a) = [gen |-> a.g, act |-> commands[a.p][a.g], real |-> a.real,
                       pending |-> TRUE, status |-> "none"]
    BY <1>4 DEF Recorded
  <2>2. Recorded(a) \in RowType BY <1>1, <1>3, <2>1 DEF RowType, AckStatus
  <2> QED BY <1>1, <1>2, <1>4, <2>1, <2>2 DEF IsNewer
<1>5. CASE ~IsNewer(a)
  BY <1>1, <1>2, <1>5 DEF Recorded, IsNewer
<1> QED BY <1>4, <1>5

LEMMA NextCommandInv ==
  ASSUME IInv, NEW r \in Drain, NextCommand(r)
  PROVE  IInv'
<1>1. PICK a \in todo[r] :
       /\ todo' = [todo EXCEPT ![r] = @ \ {a}]
       /\ row' = [row EXCEPT ![a.p] = Recorded(a)]
       /\ IF Recorded(a).gen = a.g
            THEN /\ current' = [current EXCEPT ![r] = [a EXCEPT !.status = "applied"]]
                 /\ pc' = [pc EXCEPT ![r] = "apply"]
            ELSE /\ current' = [current EXCEPT ![r] = [a EXCEPT !.status = "skipped"]]
                 /\ pc' = [pc EXCEPT ![r] = "pending"]
  BY DEF NextCommand
<1>2. /\ pc[r] = "inbox"
      /\ via' = [via EXCEPT ![r] = "inbox"]
      /\ UNCHANGED <<commands, delivered, acks, archived, marker, holds, ended, faults>>
  BY DEF NextCommand, server
<1>3. TodoOf(r) BY DEF IInv, InHand
<1>4. a \in Ack /\ Issued(a)
  BY <1>2, <1>3 DEF TodoOf, Resending, IInv, TypeOK, DrainsType
<1>5. a.p \in Project BY <1>4 DEF Ack
<1>6. /\ Recorded(a) \in RowType
      /\ row[a.p].gen <= Recorded(a).gen /\ a.g <= Recorded(a).gen
  BY <1>4, RecordedType DEF IInv
<1>7. row' \in [Project -> RowType] /\ row'[a.p] = Recorded(a) /\ Rises
  BY <1>1, <1>2, <1>5, <1>6, RowStep DEF IInv
<1>8. PICK s \in {"applied", "skipped"} :
        current' = [current EXCEPT ![r] = [a EXCEPT !.status = s]]
  BY <1>1
<1> DEFINE b == [a EXCEPT !.status = s]
<1>9. b \in Ack /\ b.p = a.p /\ b.g = a.g /\ b.status # "none"
  BY <1>4, <1>8 DEF Ack, AckStatus
<1> HIDE DEF b
<1>10. /\ OnlyOf(r) /\ pc'[r] \in {"apply", "pending"}
       /\ todo'[r] = todo[r] \ {a} /\ current'[r] = b
  BY <1>1, <1>8 DEF OnlyOf, IInv, TypeOK, DrainsType, b
<1>11. DrainsType'
  <2>1. todo' \in [Drain -> SUBSET Ack] BY <1>1 DEF IInv, TypeOK, DrainsType
  <2>2. current' = [current EXCEPT ![r] = b] BY <1>8 DEF b
  <2>3. \E q \in {"apply", "pending"} : pc' = [pc EXCEPT ![r] = q] BY <1>1
  <2> QED BY <1>2, <1>9, <2>1, <2>2, <2>3 DEF IInv, TypeOK, DrainsType, Step
<1>12. TodoOf(r)' BY <1>2, <1>3, <1>10, SameInbox DEF Resending
<1>13. CurrentOf(r)'
  BY <1>6, <1>7, <1>9, <1>10 DEF CurrentOf, Behind
<1> QED BY <1>2, <1>7, <1>10, <1>11, <1>12, <1>13, StepRow

LEMMA SyncInv ==
  ASSUME IInv, NEW r \in Drain, Sync(r)
  PROVE  IInv'
<1> DEFINE p == Target[r]
           a == [p |-> p, g |-> Latest(p), real |-> <<p, Latest(p)>> \in delivered,
                 status |-> "none"]
<1>1. p \in Project BY QuarantineAssumption
<1>2. CASE HeadBlocked(p)
  <2>1. commands[p] \in Seq(Action) /\ Latest(p) \in Nat
    BY <1>1, CountType DEF IInv, TypeOK, ServerType
  <2>2. \A s \in Seq(Action) : s # <<>> => Len(s) # 0
    OBVIOUS
  <2>3. Latest(p) \in 1 .. Latest(p)
    BY <1>2, <2>1, <2>2 DEF HeadBlocked, Latest
  <2>4. a \in Ack /\ Issued(a)
    BY <1>1, <2>1, <2>3 DEF Ack, AckStatus, Issued
  <2> HIDE DEF a
  <2>5. /\ pc[r] = "inbox" /\ todo[r] = {}
        /\ current' = [current EXCEPT ![r] = a]
        /\ pc' = [pc EXCEPT ![r] = "refused"]
        /\ UNCHANGED <<via, todo, ended, server, device, faults>>
    BY <1>2 DEF Sync, a
  <2>6. OnlyOf(r) /\ pc'[r] = "refused" /\ todo'[r] = {} /\ current'[r] = a
    BY <2>5 DEF OnlyOf, IInv, TypeOK, DrainsType
  <2>7. DrainsType' BY <2>4, <2>5 DEF IInv, TypeOK, DrainsType, Step
  <2>8. TodoOf(r)' BY <2>6 DEF TodoOf
  <2>9. CurrentOf(r)'
    BY <2>4, <2>5, <2>6 DEF CurrentOf, Handling, Issued, Latest, server
  <2> QED BY <2>5, <2>6, <2>7, <2>8, <2>9, StepQuiet DEF server, device
<1>3. CASE ~HeadBlocked(p)
  <2>1. End(r, "synced") /\ UNCHANGED <<server, device, faults>>
    BY <1>3 DEF Sync
  <2>2. faults' \in 0 .. MaxFaults BY <2>1 DEF IInv, TypeOK, DrainsType
  <2> QED BY <2>1, <2>2, EndFrame, StepQuiet DEF IInv, TypeOK, server, device
<1> QED BY <1>2, <1>3

LEMMA HandleBlockedInv ==
  ASSUME IInv, NEW r \in Drain, HandleBlocked(r)
  PROVE  IInv'
<1> DEFINE a == current[r]
           b == [p |-> a.p, g |-> Recorded(a).gen, real |-> Recorded(a).real,
                 status |-> "applied"]
<1>1. /\ pc[r] = "refused"
      /\ row' = [row EXCEPT ![a.p] = Recorded(a)]
      /\ current' = [current EXCEPT ![r] = b]
      /\ via' = [via EXCEPT ![r] = "sync"]
      /\ pc' = [pc EXCEPT ![r] = "apply"]
      /\ UNCHANGED <<commands, delivered, acks, archived, marker, holds, todo,
                     ended, faults>>
  BY DEF HandleBlocked, server
<1>2. a \in Ack /\ Issued(a) /\ TodoOf(r)
  BY <1>1 DEF IInv, InHand, CurrentOf
<1>3. a.p \in Project BY <1>2 DEF Ack
<1>4. Recorded(a) \in RowType /\ row[a.p].gen <= Recorded(a).gen
  BY <1>2, RecordedType DEF IInv
<1>5. row' \in [Project -> RowType] /\ row'[a.p] = Recorded(a) /\ Rises
  BY <1>1, <1>3, <1>4, RowStep DEF IInv
<1>6. b \in Ack /\ b.p = a.p /\ b.g = Recorded(a).gen /\ b.status # "none"
  BY <1>3, <1>4 DEF Ack, AckStatus, RowType
<1> HIDE DEF a, b
<1>7. OnlyOf(r) /\ pc'[r] = "apply" /\ todo'[r] = todo[r] /\ current'[r] = b
  BY <1>1 DEF OnlyOf, IInv, TypeOK, DrainsType
<1>8. DrainsType' BY <1>1, <1>6 DEF IInv, TypeOK, DrainsType, Step
<1>9. TodoOf(r)' BY <1>1, <1>2, <1>7, SameInbox DEF Resending
<1>10. Recorded(a).gen \in Nat BY <1>4 DEF RowType
<1>11. CurrentOf(r)'
  BY <1>5, <1>6, <1>7, <1>10 DEF CurrentOf, Behind
<1> QED BY <1>1, <1>5, <1>7, <1>8, <1>9, <1>11, StepRow

-----------------------------------------------------------------------------
(* The actions that archive, and those of the administrator and the user:  *)
(* row, inbox and server stay.                                             *)

LEMMA StepArchive ==
  ASSUME IInv, NEW r \in Drain, OnlyOf(r), DrainsType',
         archived' \in [Project -> {"no", "quarantine", "user"}],
         marker' \in [Project -> BOOLEAN],
         UNCHANGED <<commands, delivered, acks, row, holds>>,
         TodoOf(r)', CurrentOf(r)', Owned'
  PROVE  IInv'
<1>1. ServerType'
  <2>1. Command' = Command BY DEF Command, Latest
  <2> QED BY <2>1 DEF IInv, TypeOK, ServerType
<1>2. TypeOK' BY <1>1 DEF IInv, TypeOK, DeviceType
<1>3. Rises BY SameRises DEF IInv
<1>4. InHand' BY <1>2, <1>3, OthersInHand DEF IInv
<1>5. AppliedStays' BY <1>2, <1>3, SameApplied DEF IInv
<1> QED BY <1>2, <1>4, <1>5 DEF IInv

LEMMA ArchiveInv ==
  ASSUME IInv, NEW r \in Drain, Archive(r)
  PROVE  IInv'
<1> DEFINE p == current[r].p
<1>1. /\ pc[r] = "archive"
      /\ UNCHANGED <<commands, delivered, acks, row, marker, holds, via, todo,
                     ended, faults>>
  BY DEF Archive, server
<1>2. TodoOf(r) /\ CurrentOf(r) BY DEF IInv, InHand
<1>3. current[r] \in Ack /\ current[r].status # "none" /\ Behind(current[r])
  BY <1>1, <1>2 DEF CurrentOf, Handling
<1>4. p \in Project BY <1>3 DEF Ack
<1>5. CASE /\ archived[p] = "no" /\ holds[p]
           /\ archived' = [archived EXCEPT ![p] = "quarantine"]
           /\ pc' = [pc EXCEPT ![r] = "mark"]
           /\ UNCHANGED current
  <2>1. /\ OnlyOf(r) /\ pc'[r] = "mark" /\ todo'[r] = todo[r] /\ current'[r] = current[r]
    BY <1>1, <1>5 DEF OnlyOf, IInv, TypeOK, DrainsType
  <2>2. DrainsType' BY <1>1, <1>5 DEF IInv, TypeOK, DrainsType, Step
  <2>3. TodoOf(r)' BY <1>1, <1>2, <2>1, SameInbox DEF Resending
  <2>4. CurrentOf(r)' BY <1>1, <1>3, <2>1 DEF CurrentOf, Behind
  <2>5. /\ archived' \in [Project -> {"no", "quarantine", "user"}]
        /\ archived'[p] = "quarantine"
        /\ \A q \in Project \ {p} : archived'[q] = archived[q]
    BY <1>4, <1>5 DEF IInv, TypeOK, DeviceType
  <2>6. ~marker[p] BY <1>4, <1>5 DEF IInv, Owned
  <2>7. \A s \in Drain \ {r} : pc[s] = "mark" => current[s].p # p
    BY <1>5 DEF IInv, Owned
  <2>8. \A s \in Drain : pc[s] = "mark" => current[s].p \in Project
    BY DEF IInv, InHand, CurrentOf, Handling, Ack
  <2>9. \A s \in Drain \ {r} : pc'[s] = pc[s] /\ current'[s] = current[s]
    BY <2>1 DEF OnlyOf
  <2> HIDE DEF p
  <2>10. Owned'
    <3>1. \A q \in Project : marker'[q] => archived'[q] = "quarantine"
      BY <1>1, <2>5, <2>6 DEF IInv, Owned
    <3>2. \A s \in Drain : pc'[s] = "mark" =>
            archived'[current'[s].p] = "quarantine" /\ ~marker'[current'[s].p]
      BY <1>1, <2>1, <2>5, <2>6, <2>7, <2>8, <2>9 DEF IInv, Owned, p
    <3>3. \A s, q \in Drain :
            s # q /\ pc'[s] = "mark" /\ pc'[q] = "mark" => current'[s].p # current'[q].p
      BY <2>1, <2>7, <2>9 DEF IInv, Owned, p
    <3> QED BY <3>1, <3>2, <3>3 DEF Owned
  <2>11. marker' \in [Project -> BOOLEAN] BY <1>1 DEF IInv, TypeOK, DeviceType
  <2> QED BY <1>1, <2>1, <2>2, <2>3, <2>4, <2>5, <2>10, <2>11, StepArchive
<1>6. CASE /\ pc' = [pc EXCEPT ![r] = "pending"]
           /\ current' = [current EXCEPT ![r] = Failed(@)]
           /\ UNCHANGED archived
  <2> DEFINE b == Failed(current[r])
  <2>1. b \in Ack /\ b.p = p /\ b.g = current[r].g /\ b.status # "none"
    BY <1>3 DEF Failed, Ack, AckStatus
  <2> HIDE DEF b
  <2>2. current' = [current EXCEPT ![r] = b]
    BY <1>6 DEF b, IInv, TypeOK, DrainsType
  <2>3. OnlyOf(r) /\ pc'[r] = "pending" /\ todo'[r] = todo[r] /\ current'[r] = b
    BY <1>1, <1>6, <2>2 DEF OnlyOf, IInv, TypeOK, DrainsType
  <2>4. DrainsType' BY <1>1, <1>6, <2>1, <2>2 DEF IInv, TypeOK, DrainsType, Step
  <2>5. TodoOf(r)' BY <1>1, <1>2, <2>3, SameInbox DEF Resending
  <2>6. CurrentOf(r)' BY <1>1, <1>3, <2>1, <2>3 DEF CurrentOf, Behind
  <2> QED BY <1>1, <1>6, <2>3, <2>4, <2>5, <2>6, StepQuiet
<1>7. CASE /\ pc' = [pc EXCEPT ![r] = "pending"]
           /\ UNCHANGED <<archived, current>>
  <2>1. OnlyOf(r) /\ pc'[r] = "pending" /\ todo'[r] = todo[r]
    BY <1>1, <1>7 DEF OnlyOf, IInv, TypeOK, DrainsType
  <2>2. DrainsType' BY <1>1, <1>3, <1>7 DEF IInv, TypeOK, DrainsType, Step
  <2>3. TodoOf(r)' BY <1>1, <1>2, <2>1, SameInbox DEF Resending
  <2>4. CurrentOf(r)' BY <1>1, <1>3, <1>7, <2>1 DEF CurrentOf, Behind
  <2> QED BY <1>1, <1>7, <2>1, <2>2, <2>3, <2>4, StepQuiet
<1> QED BY <1>5, <1>6, <1>7 DEF Archive

LEMMA MarkInv ==
  ASSUME IInv, NEW r \in Drain, Mark(r)
  PROVE  IInv'
<1> DEFINE p == current[r].p
<1>1. /\ pc[r] = "mark" /\ pc' = [pc EXCEPT ![r] = "pending"]
      /\ marker' = [marker EXCEPT ![p] = TRUE]
      /\ UNCHANGED <<commands, delivered, acks, row, archived, holds, via, todo,
                     current, ended, faults>>
  BY DEF Mark, server
<1>2. TodoOf(r) /\ CurrentOf(r) BY DEF IInv, InHand
<1>3. current[r] \in Ack /\ current[r].status # "none" /\ Behind(current[r])
  BY <1>1, <1>2 DEF CurrentOf, Handling
<1>4. p \in Project BY <1>3 DEF Ack
<1>5. OnlyOf(r) /\ pc'[r] = "pending" /\ todo'[r] = todo[r]
  BY <1>1 DEF OnlyOf, IInv, TypeOK, DrainsType
<1>6. DrainsType' BY <1>1, <1>3 DEF IInv, TypeOK, DrainsType, Step
<1>7. TodoOf(r)' BY <1>1, <1>2, <1>5, SameInbox DEF Resending
<1>8. CurrentOf(r)' BY <1>1, <1>3, <1>5 DEF CurrentOf, Behind
<1>9. /\ marker' \in [Project -> BOOLEAN]
      /\ \A q \in Project \ {p} : marker'[q] = marker[q]
  BY <1>1, <1>4 DEF IInv, TypeOK, DeviceType
<1>10. Owned'
  <2>1. archived[p] = "quarantine" BY <1>1 DEF IInv, Owned
  <2>2. \A q \in Project : marker'[q] => archived'[q] = "quarantine"
    BY <1>1, <1>9, <2>1 DEF IInv, Owned
  <2>3. \A s \in Drain : pc'[s] = "mark" =>
          s # r /\ pc[s] = "mark" /\ current[s].p # p /\ current[s].p \in Project
    BY <1>1, <1>5 DEF OnlyOf, IInv, Owned, InHand, CurrentOf, Handling, Ack
  <2>4. \A s \in Drain : pc'[s] = "mark" =>
          archived'[current'[s].p] = "quarantine" /\ ~marker'[current'[s].p]
    BY <1>1, <1>9, <2>3 DEF IInv, Owned
  <2>5. \A s, q \in Drain :
          s # q /\ pc'[s] = "mark" /\ pc'[q] = "mark" => current'[s].p # current'[q].p
    BY <1>1, <2>3 DEF IInv, Owned
  <2> QED BY <2>2, <2>4, <2>5 DEF Owned
<1>11. archived' \in [Project -> {"no", "quarantine", "user"}]
  BY <1>1 DEF IInv, TypeOK, DeviceType
<1> QED BY <1>1, <1>5, <1>6, <1>7, <1>8, <1>9, <1>10, <1>11, StepArchive

LEMMA RestoreInv ==
  ASSUME IInv, NEW r \in Drain, Restore(r)
  PROVE  IInv'
<1> DEFINE p == current[r].p
<1>1. /\ pc[r] = "restore" /\ pc' = [pc EXCEPT ![r] = "pending"]
      /\ archived' = [archived EXCEPT ![p] = IF Restorable(p) THEN "no" ELSE @]
      /\ marker' = [marker EXCEPT ![p] = FALSE]
      /\ UNCHANGED <<commands, delivered, acks, row, holds, via, todo, current,
                     ended, faults>>
  BY DEF Restore, server
<1>2. TodoOf(r) /\ CurrentOf(r) BY DEF IInv, InHand
<1>3. current[r] \in Ack /\ current[r].status # "none" /\ Behind(current[r])
  BY <1>1, <1>2 DEF CurrentOf, Handling
<1>4. p \in Project BY <1>3 DEF Ack
<1>5. OnlyOf(r) /\ pc'[r] = "pending" /\ todo'[r] = todo[r]
  BY <1>1 DEF OnlyOf, IInv, TypeOK, DrainsType
<1>6. DrainsType' BY <1>1, <1>3 DEF IInv, TypeOK, DrainsType, Step
<1>7. TodoOf(r)' BY <1>1, <1>2, <1>5, SameInbox DEF Resending
<1>8. CurrentOf(r)' BY <1>1, <1>3, <1>5 DEF CurrentOf, Behind
<1>9. /\ marker' \in [Project -> BOOLEAN] /\ ~marker'[p]
      /\ archived' \in [Project -> {"no", "quarantine", "user"}]
      /\ \A q \in Project \ {p} : marker'[q] = marker[q] /\ archived'[q] = archived[q]
      /\ ~marker[p] => archived'[p] = archived[p]
  BY <1>1, <1>4 DEF IInv, TypeOK, DeviceType, Restorable
<1>10. Owned'
  <2>1. \A q \in Project : marker'[q] => archived'[q] = "quarantine"
    BY <1>9 DEF IInv, Owned
  <2>2. \A s \in Drain : pc'[s] = "mark" => pc[s] = "mark" /\ current[s].p \in Project
    BY <1>1, <1>5 DEF OnlyOf, IInv, InHand, CurrentOf, Handling, Ack
  <2>3. \A s \in Drain : pc'[s] = "mark" =>
          archived'[current'[s].p] = "quarantine" /\ ~marker'[current'[s].p]
    BY <1>1, <1>9, <2>2 DEF IInv, Owned
  <2>4. \A s, q \in Drain :
          s # q /\ pc'[s] = "mark" /\ pc'[q] = "mark" => current'[s].p # current'[q].p
    BY <1>1, <2>2 DEF IInv, Owned
  <2> QED BY <2>1, <2>3, <2>4 DEF Owned
<1> QED BY <1>1, <1>5, <1>6, <1>7, <1>8, <1>9, <1>10, StepArchive

-----------------------------------------------------------------------------
(* The actions that report: the row, then the server, then the row again.  *)

LEMMA RecordPendingInv ==
  ASSUME IInv, NEW r \in Drain, RecordPending(r)
  PROVE  IInv'
<1> DEFINE a == current[r]
           v == [row[a.p] EXCEPT !.pending = TRUE, !.status = a.status]
<1>1. /\ pc[r] = "pending"
      /\ UNCHANGED <<commands, delivered, acks, archived, marker, holds, faults>>
  BY DEF RecordPending, server
<1>2. TodoOf(r) /\ CurrentOf(r) BY DEF IInv, InHand
<1>3. a \in Ack /\ a.status # "none" /\ Behind(a)
  BY <1>1, <1>2 DEF CurrentOf, Handling
<1>4. a.p \in Project /\ a.g \in Nat /\ a.status \in AckStatus
  BY <1>3 DEF Ack
<1>5. CASE IsOf(a)
  <2>1. row[a.p] \in RowType BY <1>4 DEF IInv, TypeOK, DeviceType
  <2>2. v \in RowType /\ v.gen = row[a.p].gen BY <1>4, <2>1 DEF RowType
  <2>3. /\ row' = [row EXCEPT ![a.p] = v]
        /\ pc' = [pc EXCEPT ![r] = "send"]
        /\ UNCHANGED <<via, todo, current, ended>>
    BY <1>4, <1>5, <2>1 DEF RecordPending, IInv, TypeOK, DeviceType, RowType
  <2>4. row[a.p].gen <= v.gen BY <1>4, <2>2, CountType DEF IInv
  <2> HIDE DEF v
  <2>5. row' \in [Project -> RowType] /\ row'[a.p] = v /\ Rises
    BY <1>1, <1>4, <2>2, <2>3, <2>4, RowStep DEF IInv
  <2>6. OnlyOf(r) /\ pc'[r] = "send" /\ todo'[r] = todo[r] /\ current'[r] = a
    BY <2>3 DEF OnlyOf, IInv, TypeOK, DrainsType
  <2>7. DrainsType' BY <1>1, <1>3, <2>3 DEF IInv, TypeOK, DrainsType, Step
  <2>8. TodoOf(r)' BY <1>1, <1>2, <2>6, SameInbox DEF Resending
  <2>9. CurrentOf(r)'
    BY <1>3, <2>2, <2>5, <2>6 DEF CurrentOf, Behind
  <2> QED BY <1>1, <2>5, <2>6, <2>7, <2>8, <2>9, StepRow
<1>6. CASE ~IsOf(a)
  <2>1. End(r, "failed") /\ UNCHANGED row BY <1>6 DEF RecordPending
  <2>2. faults' \in 0 .. MaxFaults BY <1>1 DEF IInv, TypeOK, DrainsType
  <2> QED BY <1>1, <2>1, <2>2, EndFrame, StepQuiet DEF IInv, TypeOK
<1> QED BY <1>5, <1>6

LEMMA SendInv ==
  ASSUME IInv, NEW r \in Drain, Send(r)
  PROVE  IInv'
<1> DEFINE a == current[r]
<1>1. /\ pc[r] = "send"
      /\ UNCHANGED <<commands, delivered, row, archived, marker, holds, faults>>
  BY DEF Send, device
<1>2. TodoOf(r) /\ CurrentOf(r) BY DEF IInv, InHand
<1>3. a \in Ack /\ a.status # "none" /\ Behind(a)
  BY <1>1, <1>2 DEF CurrentOf, Handling
<1>4. CASE Accepted(a)
  <2>1. /\ RecordAck(a) /\ pc' = [pc EXCEPT ![r] = "settle"]
        /\ UNCHANGED <<via, todo, current, ended>>
    BY <1>4 DEF Send
  <2>2. OnlyOf(r) /\ pc'[r] = "settle" /\ todo'[r] = todo[r] /\ current'[r] = a
    BY <2>1 DEF OnlyOf, IInv, TypeOK, DrainsType
  <2>3. DrainsType' BY <1>1, <1>3, <2>1 DEF IInv, TypeOK, DrainsType, Step
  <2>4. TodoOf(r)' BY <1>1, <1>2, <2>2, SameInbox DEF Resending
  <2>5. CurrentOf(r)' BY <1>1, <1>3, <2>2 DEF CurrentOf, Behind
  <2> QED BY <1>1, <1>3, <2>1, <2>2, <2>3, <2>4, <2>5, StepTold
<1>5. CASE ~Accepted(a)
  <2>1. End(r, "failed") /\ UNCHANGED acks BY <1>5 DEF Send
  <2>2. faults' \in 0 .. MaxFaults BY <1>1 DEF IInv, TypeOK, DrainsType
  <2> QED BY <1>1, <2>1, <2>2, EndFrame, StepQuiet DEF IInv, TypeOK
<1> QED BY <1>4, <1>5

LEMMA SettleSentInv ==
  ASSUME IInv, NEW r \in Drain, SettleSent(r)
  PROVE  IInv'
<1>1. /\ pc[r] = "settle" /\ Settle(current[r])
      /\ UNCHANGED <<commands, delivered, acks, archived, marker, holds, faults>>
  BY DEF SettleSent, server
<1>2. TodoOf(r) /\ CurrentOf(r) BY DEF IInv, InHand
<1>3. current[r] \in Ack BY <1>1, <1>2 DEF CurrentOf, Handling
<1>4. row' \in [Project -> RowType] /\ Rises
  BY <1>1, <1>3, SettleRow DEF IInv
<1>5. CASE IsOf(current[r]) /\ via[r] = "inbox"
  <2>1. /\ pc' = [pc EXCEPT ![r] = "inbox"]
        /\ current' = [current EXCEPT ![r] = NoAck]
        /\ UNCHANGED <<via, todo, ended>>
    BY <1>5 DEF SettleSent
  <2>2. OnlyOf(r) /\ pc'[r] = "inbox" /\ todo'[r] = todo[r]
    BY <2>1 DEF OnlyOf, IInv, TypeOK, DrainsType
  <2>3. DrainsType' BY <1>1, <2>1 DEF IInv, TypeOK, DrainsType, Step
  <2>4. TodoOf(r)' BY <1>1, <1>2, <2>2, SameInbox DEF Resending
  <2>5. CurrentOf(r)' BY <2>2 DEF CurrentOf, Handling
  <2> QED BY <1>1, <1>4, <2>2, <2>3, <2>4, <2>5, StepRow
<1>6. CASE ~(IsOf(current[r]) /\ via[r] = "inbox")
  <2>1. End(r, "failed") BY <1>6 DEF SettleSent
  <2>2. faults' \in 0 .. MaxFaults BY <1>1 DEF IInv, TypeOK, DrainsType
  <2> QED BY <1>1, <1>4, <2>1, <2>2, EndFrame, StepRow DEF IInv, TypeOK
<1> QED BY <1>5, <1>6

-----------------------------------------------------------------------------
(* Faults.                                                                 *)

LEMMA FaultType ==
  ASSUME TypeOK, Fault
  PROVE  faults' \in 0 .. MaxFaults
BY QuarantineAssumption DEF Fault, TypeOK, DrainsType

LEMMA InterruptInv ==
  ASSUME IInv, NEW r \in Drain, Interrupt(r)
  PROVE  IInv'
<1>1. End(r, "failed") /\ UNCHANGED <<server, device>> BY DEF Interrupt
<1>2. faults' \in 0 .. MaxFaults BY FaultType DEF Interrupt, IInv
<1> QED BY <1>1, <1>2, EndFrame, StepQuiet DEF IInv, TypeOK, server, device

LEMMA UnheardInv ==
  ASSUME IInv, NEW r \in Drain, Unheard(r)
  PROVE  IInv'
<1>1. /\ pc[r] = "send" /\ RecordAck(current[r]) /\ End(r, "failed")
      /\ UNCHANGED <<commands, delivered, row, archived, marker, holds>>
  BY DEF Unheard, device
<1>2. faults' \in 0 .. MaxFaults BY FaultType DEF Unheard, IInv
<1>3. current[r] \in Ack /\ Behind(current[r])
  BY <1>1 DEF IInv, InHand, CurrentOf, Handling
<1>4. /\ DrainsType' /\ OnlyOf(r) /\ TodoOf(r)' /\ CurrentOf(r)'
      /\ pc'[r] = "idle"
  BY <1>1, <1>2, EndFrame DEF IInv, TypeOK
<1> QED BY <1>1, <1>3, <1>4, StepTold

LEMMA RetryLostInv ==
  ASSUME IInv, NEW r \in Drain, RetryLost(r)
  PROVE  IInv'
<1>1. PICK a \in todo[r] :
        /\ todo' = [todo EXCEPT ![r] = @ \ {a}]
        /\ (Accepted(a) /\ RecordAck(a)) \/ UNCHANGED acks
  BY DEF RetryLost
<1>2. /\ pc[r] = "retry"
      /\ UNCHANGED <<commands, delivered, row, archived, marker, holds, pc, via,
                     current, ended>>
  BY DEF RetryLost, device
<1>3. faults' \in 0 .. MaxFaults BY FaultType DEF RetryLost, IInv
<1>4. TodoOf(r) BY DEF IInv, InHand
<1>5. a \in Ack /\ Behind(a)
  BY <1>2, <1>4 DEF TodoOf, Resending, IInv, TypeOK, DrainsType
<1>6. OnlyOf(r) /\ pc'[r] = "retry" /\ todo'[r] = todo[r] \ {a}
  BY <1>1, <1>2 DEF OnlyOf, IInv, TypeOK, DrainsType
<1>7. DrainsType' BY <1>1, <1>2, <1>3 DEF IInv, TypeOK, DrainsType
<1>8. TodoOf(r)' BY <1>2, <1>4, <1>6, SameInHand DEF Resending
<1>9. CurrentOf(r)' BY <1>6 DEF CurrentOf, Handling
<1> QED BY <1>1, <1>2, <1>5, <1>6, <1>7, <1>8, <1>9, StepTold

LEMMA CrashInv ==
  ASSUME IInv, NEW x, Crash(x)
  PROVE  IInv'
<1>1. /\ pc' = [r \in Drain |-> IF Process[r] = x THEN "idle" ELSE pc[r]]
      /\ via' = [r \in Drain |-> IF Process[r] = x THEN "inbox" ELSE via[r]]
      /\ todo' = [r \in Drain |-> IF Process[r] = x THEN {} ELSE todo[r]]
      /\ current' = [r \in Drain |-> IF Process[r] = x THEN NoAck ELSE current[r]]
      /\ UNCHANGED <<commands, delivered, acks, row, archived, marker, holds, ended>>
  BY DEF Crash, server, device
<1>2. faults' \in 0 .. MaxFaults BY FaultType DEF Crash, IInv
<1>3. TypeOK'
  <2>1. Command' = Command BY <1>1 DEF Command, Latest
  <2>2. ServerType' BY <1>1, <2>1 DEF IInv, TypeOK, ServerType
  <2>3. DeviceType' BY <1>1 DEF IInv, TypeOK, DeviceType
  <2>4. DrainsType' BY <1>1, <1>2 DEF IInv, TypeOK, DrainsType, Step
  <2> QED BY <2>2, <2>3, <2>4 DEF TypeOK
<1>4. InHand'
  <2>1. SUFFICES ASSUME NEW r \in Drain PROVE TodoOf(r)' /\ CurrentOf(r)'
    BY DEF InHand
  <2>2. CASE Process[r] = x
    <3>1. pc'[r] = "idle" /\ todo'[r] = {} BY <1>1, <2>2
    <3> QED BY <3>1 DEF TodoOf, CurrentOf, Handling
  <2>3. CASE Process[r] # x
    <3>1. pc'[r] = pc[r] /\ todo'[r] = todo[r] /\ current'[r] = current[r]
      BY <1>1, <2>3
    <3>2. TodoOf(r) /\ CurrentOf(r) BY DEF IInv, InHand
    <3>3. \A a : Behind(a)' = Behind(a) /\ Issued(a)' = Issued(a)
      BY <1>1 DEF Behind, Issued, Latest
    <3> QED BY <3>1, <3>2, <3>3 DEF TodoOf, CurrentOf, Resending
  <2> QED BY <2>2, <2>3
<1>5. Owned'
  <2>1. \A s \in Drain : pc'[s] = "mark" => pc[s] = "mark" /\ current'[s] = current[s]
    BY <1>1
  <2> QED BY <1>1, <2>1, SameOwned DEF IInv
<1>6. AppliedStays' BY <1>1 DEF IInv, AppliedStays
<1> QED BY <1>3, <1>4, <1>5, <1>6 DEF IInv

-----------------------------------------------------------------------------
(* The administrator and the user.  No drain moves.                        *)

LEMMA BlockProjectInv ==
  ASSUME IInv, NEW p \in Project, NEW act \in Action, BlockProject(p, act)
  PROVE  IInv'
<1>1. /\ commands' = [commands EXCEPT ![p] = Append(@, act)]
      /\ UNCHANGED <<delivered, acks, row, archived, marker, holds, pc, via, todo,
                     current, ended, faults>>
  BY DEF BlockProject, device, drains
<1>2. /\ \A q \in Project : commands[q] \in Seq(Action)
      /\ commands' \in [Project -> Seq(Action)]
      /\ commands'[p] = Append(commands[p], act)
      /\ \A q \in Project \ {p} : commands'[q] = commands[q]
  BY <1>1 DEF IInv, TypeOK, ServerType
<1>3. \A s \in Seq(Action) : Len(s) \in Nat /\ Len(Append(s, act)) = Len(s) + 1
  OBVIOUS
<1>4. Latest(p)' = Latest(p) + 1 BY <1>2, <1>3 DEF Latest
<1>5. \A q \in Project \ {p} : Latest(q)' = Latest(q) BY <1>2 DEF Latest
<1>6. \A q \in Project : Latest(q) \in Nat /\ Latest(q) <= Latest(q)'
  BY <1>4, <1>5, CountType DEF IInv
<1>7. Rises BY <1>1, <1>6, CountType DEF IInv, Rises
<1>8. TypeOK'
  <2>1. \A q \in Project : 1 .. Latest(q) \subseteq 1 .. Latest(q)'
    BY <1>4, <1>5, <1>6
  <2>2. Command \subseteq Command' BY <2>1 DEF Command
  <2>3. ServerType' BY <1>1, <1>2, <2>2 DEF IInv, TypeOK, ServerType
  <2>4. DeviceType' BY <1>1 DEF IInv, TypeOK, DeviceType
  <2>5. DrainsType' BY <1>1 DEF IInv, TypeOK, DrainsType
  <2> QED BY <2>3, <2>4, <2>5 DEF TypeOK
<1>9. InHand'
  <2>1. SUFFICES ASSUME NEW r \in Drain PROVE TodoOf(r)' /\ CurrentOf(r)'
    BY DEF InHand
  <2>2. TodoOf(r) /\ CurrentOf(r) BY DEF IInv, InHand
  <2>3. \A a : Behind(a)' = Behind(a) BY <1>1 DEF Behind
  <2>4. \A a \in Ack : Issued(a) => Issued(a)'
    BY <1>4, <1>5, <1>6 DEF Issued, Ack
  <2>5. todo[r] \subseteq Ack BY DEF IInv, TypeOK, DrainsType
  <2>6. TodoOf(r)' BY <1>1, <2>2, <2>3, <2>4, <2>5 DEF TodoOf, Resending
  <2>7. CurrentOf(r)' BY <1>1, <2>2, <2>3, <2>4 DEF CurrentOf
  <2> QED BY <2>6, <2>7
<1>10. Owned' BY <1>1 DEF IInv, Owned
<1>11. AppliedStays' BY <1>1 DEF IInv, AppliedStays
<1> QED BY <1>8, <1>9, <1>10, <1>11 DEF IInv

(* The user's hands are on the archives and on what the device holds.      *)
LEMMA StepUser ==
  ASSUME IInv, DeviceType', Owned',
         UNCHANGED <<commands, delivered, acks, row, pc, via, todo, current, ended,
                     faults>>
  PROVE  IInv'
<1>1. ServerType'
  <2>1. Command' = Command BY DEF Command, Latest
  <2> QED BY <2>1 DEF IInv, TypeOK, ServerType
<1>2. TypeOK' BY <1>1 DEF IInv, TypeOK, DrainsType
<1>3. \A a : Behind(a)' = Behind(a) /\ Issued(a)' = Issued(a)
  BY DEF Behind, Issued, Latest
<1>4. InHand' BY <1>3 DEF IInv, InHand, TodoOf, CurrentOf, Resending
<1>5. AppliedStays' BY DEF IInv, AppliedStays
<1> QED BY <1>2, <1>4, <1>5 DEF IInv

LEMMA UserArchiveInv ==
  ASSUME IInv, NEW p \in Project, UserArchive(p)
  PROVE  IInv'
<1>1. /\ archived[p] = "no" /\ archived' = [archived EXCEPT ![p] = "user"]
      /\ UNCHANGED <<commands, delivered, acks, row, marker, holds, pc, via, todo,
                     current, ended, faults>>
  BY DEF UserArchive, server, drains
<1>2. DeviceType' BY <1>1 DEF IInv, TypeOK, DeviceType
<1>3. \A q \in Project : archived[q] = "quarantine" => archived'[q] = "quarantine"
  BY <1>1 DEF IInv, TypeOK, DeviceType
<1>4. \A s \in Drain : pc[s] = "mark" => current[s].p \in Project
  BY DEF IInv, InHand, CurrentOf, Handling, Ack
<1>5. Owned' BY <1>1, <1>3, <1>4 DEF IInv, Owned
<1> QED BY <1>1, <1>2, <1>5, StepUser

LEMMA UserWriteInv ==
  ASSUME IInv, NEW p \in Project, UserWrite(p)
  PROVE  IInv'
<1>1. /\ holds' = [holds EXCEPT ![p] = TRUE]
      /\ UNCHANGED <<commands, delivered, acks, row, archived, marker, pc, via, todo,
                     current, ended, faults>>
  BY DEF UserWrite, server, drains
<1>2. DeviceType' BY <1>1 DEF IInv, TypeOK, DeviceType
<1>3. Owned' BY <1>1 DEF IInv, Owned
<1> QED BY <1>1, <1>2, <1>3, StepUser

-----------------------------------------------------------------------------

LEMMA InitInv ==
  ASSUME Init
  PROVE  IInv
<1>1. /\ commands = [p \in Project |-> <<>>]
      /\ delivered = {}
      /\ acks = [p \in Project |-> [g \in 1 .. MaxCommands[p] |-> "none"]]
  BY DEF Init
<1>2. ServerType BY <1>1 DEF ServerType, AckStatus
<1>3. DeviceType
  <2>1. holds \in [Project -> BOOLEAN] BY DEF Init
  <2>2. NoRow \in RowType BY DEF NoRow, RowType, Action, AckStatus
  <2> QED BY <2>1, <2>2 DEF Init, DeviceType
<1>4. DrainsType BY QuarantineAssumption DEF Init, DrainsType, Step
<1>5. \A r \in Drain : pc[r] = "idle" /\ todo[r] = {} BY DEF Init
<1>6. InHand BY <1>5 DEF InHand, TodoOf, CurrentOf, Handling
<1>7. Owned BY <1>5 DEF Init, Owned
<1>8. AppliedStays BY <1>1 DEF AppliedStays
<1> QED BY <1>2, <1>3, <1>4, <1>6, <1>7, <1>8 DEF IInv, TypeOK

LEMMA StutterInv ==
  ASSUME IInv, UNCHANGED vars
  PROVE  IInv'
<1>1. DeviceType' BY DEF vars, device, IInv, TypeOK, DeviceType
<1>2. Owned' BY DEF vars, device, drains, IInv, Owned
<1> QED BY <1>1, <1>2, StepUser DEF vars, server, device, drains

(* Every step of the administrator, the user, a drain or a fault.          *)
LEMMA StepInv ==
  ASSUME IInv, [Next]_vars
  PROVE  IInv'
<1>1. ASSUME NEW p \in Project, NEW act \in Action, BlockProject(p, act) PROVE IInv'
  BY <1>1, BlockProjectInv
<1>2. ASSUME NEW r \in Drain, DrainStep(r) PROVE IInv'
  BY <1>2, StartDrainInv, RetryInv, RetrySettledInv, RetriesDoneInv, PollInv,
     NextCommandInv, SyncInv, HandleBlockedInv, ReadRowInv, ArchiveInv, MarkInv,
     RestoreInv, RecordPendingInv, SendInv, SettleSentInv
  DEF DrainStep
<1>3. ASSUME NEW r \in Drain, Interrupt(r) \/ Unheard(r) \/ RetryLost(r) PROVE IInv'
  BY <1>3, InterruptInv, UnheardInv, RetryLostInv
<1>4. ASSUME NEW x, Crash(x) PROVE IInv'
  BY <1>4, CrashInv
<1>5. ASSUME NEW p \in Project, UserArchive(p) \/ UserWrite(p) PROVE IInv'
  BY <1>5, UserArchiveInv, UserWriteInv
<1> QED BY <1>1, <1>2, <1>3, <1>4, <1>5, StutterInv DEF Next

(* The inductive invariant: of every behaviour of the distribution.        *)
THEOREM Invariance == Spec => []IInv
<1>1. Init => IInv BY InitInv
<1>2. IInv /\ [Next]_vars => IInv' BY StepInv
<1> QED BY <1>1, <1>2, PTL DEF Spec

(* What the server, the device and the drains hold is always well formed;  *)
(* an acknowledgement never goes out with a blank status, not even that of *)
(* a row without one (ListPendingProjectBlockAcks).                        *)
THEOREM TypeCorrect == Spec => []TypeOK
<1>1. IInv => TypeOK BY DEF IInv
<1> QED BY <1>1, Invariance, PTL

(* RecordProjectBlock takes only newer generations and every drain works   *)
(* from the row: a command reported as applied is never gone back behind.  *)
THEOREM AppliedNeverUndone == Spec => []AppliedStays
<1>1. IInv => AppliedStays BY DEF IInv
<1> QED BY <1>1, Invariance, PTL

(* restoreQuarantineOwnedArchive lifts only an archive with a marker, and  *)
(* no marker is ever on an archive of the user's.                          *)
THEOREM UserArchives == Spec => UserArchiveStays
<1>1. ASSUME IInv, [Next]_vars, NEW p \in Project, archived[p] = "user"
      PROVE  archived'[p] = "user"
  <2>1. ~marker[p] /\ archived \in [Project -> {"no", "quarantine", "user"}]
    BY <1>1 DEF IInv, Owned, TypeOK, DeviceType
  <2>2. ASSUME NEW r \in Drain, Archive(r) PROVE archived'[p] = "user"
    BY <1>1, <2>1, <2>2 DEF Archive
  <2>3. ASSUME NEW r \in Drain, Restore(r) PROVE archived'[p] = "user"
    BY <1>1, <2>1, <2>3 DEF Restore, Restorable
  <2>4. ASSUME NEW q \in Project, UserArchive(q) PROVE archived'[p] = "user"
    BY <1>1, <2>1, <2>4 DEF UserArchive
  <2>5. ASSUME NEW r \in Drain, DrainStep(r), ~Archive(r), ~Restore(r)
        PROVE  UNCHANGED archived
    BY <2>5 DEF DrainStep, StartDrain, Retry, RetrySettled, RetriesDone, Poll,
       NextCommand, Sync, HandleBlocked, ReadRow, Mark, RecordPending, Send,
       SettleSent, device
  <2>6. ASSUME NEW q \in Project, NEW act \in Action, BlockProject(q, act)
        PROVE  UNCHANGED archived
    BY <2>6 DEF BlockProject, device
  <2>7. ASSUME NEW r \in Drain, Interrupt(r) \/ Unheard(r) \/ RetryLost(r)
        PROVE  UNCHANGED archived
    BY <2>7 DEF Interrupt, Unheard, RetryLost, device
  <2>8. ASSUME NEW x, Crash(x) PROVE UNCHANGED archived
    BY <2>8 DEF Crash, device
  <2>9. ASSUME NEW q \in Project, UserWrite(q) PROVE UNCHANGED archived
    BY <2>9 DEF UserWrite
  <2>10. UNCHANGED vars => UNCHANGED archived BY DEF vars, device
  <2> QED BY <1>1, <2>2, <2>3, <2>4, <2>5, <2>6, <2>7, <2>8, <2>9, <2>10 DEF Next
<1>2. IInv /\ [Next]_vars =>
        [\A p \in Project : archived[p] = "user" => archived'[p] = "user"]_vars
  BY <1>1
<1> QED BY <1>2, Invariance, PTL DEF Spec, UserArchiveStays

-----------------------------------------------------------------------------
(* A block acknowledged as applied is archived.  An acknowledgement shows  *)
(* what it says: where it says applied, for the command the row is at, and *)
(* that is a block, the project is archived.  So do the row's own status   *)
(* and what a drain is about to report.  All of it holds until a drain     *)
(* that read an unblock restores a project whose row is a block by then.   *)

RestoredOverBlock == \E r \in Drain : Restore(r) /\ row[current[r].p].act = "block"

Shown(a) ==
  a.status = "applied" /\ a.g = row[a.p].gen /\ row[a.p].act = "block"
    => archived[a.p] # "no"

(* No command is beyond the bound, and a block is a command.               *)
Numbered ==
  \A p \in Project :
    /\ Latest(p) <= MaxCommands[p]
    /\ row[p].act = "block" => row[p].gen \in 1 .. MaxCommands[p]

RowsShown ==
  \A p \in Project :
    row[p].status = "applied" /\ row[p].act = "block" => archived[p] # "no"

Reporting == {"retried", "mark", "pending", "send", "settle"}

DrainShown(r) ==
  /\ Resending(r) => \A a \in todo[r] : Shown(a)
  /\ pc[r] \in Reporting => Shown(current[r])
  /\ pc[r] = "restore" /\ current[r].g = row[current[r].p].gen
       => row[current[r].p].act # "block"

BInv == Numbered /\ RowsShown /\ BlockArchives /\ \A r \in Drain : DrainShown(r)

(* A generation is one command, and what is archived stays so while the    *)
(* project's row is a block.                                               *)
SameAct == \A p \in Project : row'[p].gen = row[p].gen => row'[p].act = row[p].act
StillArchived ==
  \A p \in Project : row'[p].act = "block" /\ archived[p] # "no" => archived'[p] # "no"

LEMMA KeptShown ==
  ASSUME IInv, IInv', Rises, SameAct, StillArchived,
         NEW a \in Ack, Behind(a), Shown(a)
  PROVE  Shown(a)'
<1>1. SUFFICES ASSUME a.status = "applied", a.g = row'[a.p].gen, row'[a.p].act = "block"
               PROVE  archived'[a.p] # "no"
  BY DEF Shown
<1>2. a.p \in Project BY DEF Ack
<1>3. row[a.p].gen \in Nat /\ row'[a.p].gen \in Nat
  BY <1>2 DEF IInv, TypeOK, DeviceType, RowType
<1>4. a.g = row[a.p].gen BY <1>1, <1>2, <1>3 DEF Behind, Rises
<1>5. row[a.p].act = "block" BY <1>1, <1>2, <1>4 DEF SameAct
<1>6. archived[a.p] # "no" BY <1>1, <1>4, <1>5 DEF Shown
<1> QED BY <1>1, <1>2, <1>6 DEF StillArchived

LEMMA HandledType ==
  ASSUME IInv, NEW r \in Drain, pc[r] \in Handling
  PROVE  current[r] \in Ack /\ current[r].p \in Project /\ Behind(current[r])
BY DEF IInv, InHand, CurrentOf, Ack

LEMMA ResentType ==
  ASSUME IInv, NEW r \in Drain, Resending(r), NEW a \in todo[r]
  PROVE  a \in Ack /\ a.p \in Project /\ Behind(a)
BY DEF IInv, InHand, TodoOf, TypeOK, DrainsType, Ack

(* What another drain is to report stays shown.                            *)
LEMMA OthersShown ==
  ASSUME IInv, IInv', BInv, Rises, SameAct, StillArchived, NEW s \in Drain,
         pc'[s] = pc[s], todo'[s] = todo[s], current'[s] = current[s]
  PROVE  DrainShown(s)'
<1>1. DrainShown(s) BY DEF BInv
<1>2. Resending(s)' => \A a \in todo'[s] : Shown(a)'
  <2>1. SUFFICES ASSUME Resending(s), NEW a \in todo[s] PROVE Shown(a)'
    BY DEF Resending
  <2>2. a \in Ack /\ Behind(a) BY <2>1, ResentType
  <2> QED BY <1>1, <2>1, <2>2, KeptShown DEF DrainShown
<1>3. pc'[s] \in Reporting => Shown(current[s])'
  <2>1. SUFFICES ASSUME pc[s] \in Reporting PROVE Shown(current[s])'
    OBVIOUS
  <2>2. current[s] \in Ack /\ Behind(current[s])
    BY <2>1, HandledType DEF Reporting, Handling
  <2>3. Shown(current[s]) BY <1>1, <2>1 DEF DrainShown
  <2> DEFINE a == current[s]
  <2>4. a \in Ack /\ Behind(a) /\ Shown(a) BY <2>2, <2>3
  <2>5. a' = a OBVIOUS
  <2> HIDE DEF a
  <2>6. \A b \in Ack : Behind(b) /\ Shown(b) => Shown(b)' BY KeptShown
  <2>7. Shown(a)' BY <2>4, <2>5, <2>6 DEF Shown
  <2> QED BY <2>7 DEF a
<1>4. ASSUME pc'[s] = "restore", current'[s].g = row'[current[s].p].gen
      PROVE  row'[current[s].p].act # "block"
  <2> DEFINE p == current[s].p
             g == current[s].g
  <2>1. p \in Project /\ g <= row[p].gen /\ g \in Nat
    BY <1>4, HandledType DEF Handling, Behind, Ack
  <2>2. row[p].gen \in Nat /\ row'[p].gen \in Nat
    BY <2>1 DEF IInv, TypeOK, DeviceType, RowType
  <2>3. g = row[p].gen /\ row'[p].gen = row[p].gen
    BY <1>4, <2>1, <2>2 DEF Rises
  <2>4. row[p].act # "block" BY <1>1, <1>4, <2>3 DEF DrainShown
  <2> QED BY <2>1, <2>3, <2>4 DEF SameAct
<1> QED BY <1>2, <1>3, <1>4 DEF DrainShown

LEMMA StepShown ==
  ASSUME IInv, IInv', BInv, Rises, SameAct, StillArchived,
         NEW r \in Drain, OnlyOf(r), DrainShown(r)',
         Numbered', RowsShown', BlockArchives'
  PROVE  BInv'
<1>1. ASSUME NEW s \in Drain \ {r} PROVE DrainShown(s)'
  BY <1>1, OthersShown DEF OnlyOf
<1> QED BY <1>1 DEF BInv

(* What the server has been told of the rows as they are.                  *)
LEMMA AcksShown ==
  ASSUME IInv, IInv', BInv, Rises, SameAct, StillArchived, Numbered', UNCHANGED acks
  PROVE  BlockArchives'
<1>1. SUFFICES ASSUME NEW p \in Project, row'[p].act = "block",
                      acks[p][row'[p].gen] = "applied"
               PROVE  archived'[p] # "no"
  BY DEF BlockArchives
<1>2. row'[p].gen \in 1 .. MaxCommands[p] BY <1>1 DEF Numbered
<1>3. row'[p].gen \in DOMAIN acks[p]
  BY <1>2 DEF IInv, TypeOK, ServerType
<1>4. row'[p].gen <= row[p].gen BY <1>1, <1>3 DEF IInv, AppliedStays
<1>5. row[p].gen \in Nat /\ row'[p].gen \in Nat
  BY DEF IInv, TypeOK, DeviceType, RowType
<1>6. row'[p].gen = row[p].gen BY <1>4, <1>5 DEF Rises
<1>7. archived[p] # "no" BY <1>1, <1>6 DEF SameAct, BInv, BlockArchives
<1> QED BY <1>1, <1>7 DEF StillArchived

(* A drain moves on; rows, archives and server stay.                       *)
LEMMA QuietShown ==
  ASSUME IInv, IInv', BInv, NEW r \in Drain, OnlyOf(r), DrainShown(r)',
         UNCHANGED <<commands, acks, row, archived>>
  PROVE  BInv'
<1>1. Rises BY SameRises DEF IInv
<1>2. SameAct /\ StillArchived BY DEF SameAct, StillArchived
<1>3. Numbered' /\ RowsShown' /\ BlockArchives'
  BY DEF BInv, Numbered, RowsShown, BlockArchives, Latest
<1> QED BY <1>1, <1>2, <1>3, StepShown

(* The server takes what is shown.                                         *)
LEMMA ToldShown ==
  ASSUME IInv, IInv', BInv, NEW r \in Drain, OnlyOf(r), DrainShown(r)',
         NEW a \in Ack, Shown(a), RecordAck(a) \/ UNCHANGED acks,
         UNCHANGED <<commands, row, archived>>
  PROVE  BInv'
<1>1. CASE UNCHANGED acks BY <1>1, QuietShown
<1>2. CASE RecordAck(a)
  <2>1. Rises BY SameRises DEF IInv
  <2>2. SameAct /\ StillArchived BY DEF SameAct, StillArchived
  <2>3. Numbered' /\ RowsShown'
    BY DEF BInv, Numbered, RowsShown, Latest
  <2>4. BlockArchives'
    <3>1. SUFFICES ASSUME NEW p \in Project, row[p].act = "block",
                          acks'[p][row[p].gen] = "applied"
                   PROVE  archived[p] # "no"
      BY DEF BlockArchives
    <3>2. CASE a.p = p /\ a.g = row[p].gen
      <4>1. row[p].gen \in 1 .. MaxCommands[p] BY <3>1 DEF BInv, Numbered
      <4>2. acks'[p] = [acks[p] EXCEPT ![a.g] = a.status]
        BY <1>2, <3>2 DEF RecordAck, IInv, TypeOK, ServerType
      <4>3. acks[p] \in [1 .. MaxCommands[p] -> AckStatus]
        BY DEF IInv, TypeOK, ServerType
      <4>4. a.status = "applied" BY <3>1, <3>2, <4>1, <4>2, <4>3
      <4> QED BY <3>1, <3>2, <4>4 DEF Shown
    <3>3. CASE ~(a.p = p /\ a.g = row[p].gen)
      <4>1. acks'[p][row[p].gen] = acks[p][row[p].gen]
        <5>1. row[p].gen \in 1 .. MaxCommands[p] BY <3>1 DEF BInv, Numbered
        <5>2. acks[p] \in [1 .. MaxCommands[p] -> AckStatus]
          BY DEF IInv, TypeOK, ServerType
        <5>3. CASE a.p = p
          <6>1. acks'[p] = [acks[p] EXCEPT ![a.g] = a.status]
            BY <1>2, <5>3 DEF RecordAck, IInv, TypeOK, ServerType
          <6> QED BY <3>3, <5>1, <5>2, <5>3, <6>1
        <5>4. CASE a.p # p
          BY <1>2, <5>4 DEF RecordAck, IInv, TypeOK, ServerType
        <5> QED BY <5>3, <5>4
      <4> QED BY <3>1, <4>1 DEF BInv, BlockArchives
    <3> QED BY <3>2, <3>3
  <2> QED BY <2>1, <2>2, <2>3, <2>4, StepShown
<1> QED BY <1>1, <1>2

(* A status that is shown is written to the row it is of.                  *)
LEMMA StatusShown ==
  ASSUME IInv, IInv', BInv, NEW r \in Drain, OnlyOf(r), DrainShown(r)',
         NEW a \in Ack, Shown(a), NEW pending \in BOOLEAN,
         row' = IF IsOf(a)
                  THEN [row EXCEPT ![a.p].pending = pending, ![a.p].status = a.status]
                  ELSE row,
         UNCHANGED <<commands, acks, archived>>
  PROVE  BInv'
<1>1. CASE ~IsOf(a)
  BY <1>1, QuietShown
<1>2. CASE IsOf(a)
  <2>1. a.p \in Project BY DEF Ack
  <2>2. /\ \A p \in Project : row'[p].gen = row[p].gen /\ row'[p].act = row[p].act
        /\ \A p \in Project \ {a.p} : row'[p] = row[p]
        /\ row'[a.p].status = a.status
    BY <1>2, <2>1 DEF IInv, TypeOK, DeviceType, RowType
  <2>3. \A p \in Project : Latest(p)' = Latest(p) BY DEF Latest
  <2>4. Rises
    <3>1. \A p \in Project : row[p].gen \in Nat /\ Latest(p) \in Nat
      BY CountType DEF IInv
    <3>2. SUFFICES ASSUME NEW p \in Project
                   PROVE  row[p].gen <= row'[p].gen /\ Latest(p) <= Latest(p)'
      BY DEF Rises
    <3>3. row'[p].gen = row[p].gen /\ Latest(p)' = Latest(p)
      BY <2>2, <2>3
    <3> QED BY <3>1, <3>3
  <2>5. SameAct /\ StillArchived BY <2>2 DEF SameAct, StillArchived
  <2>6. Numbered' BY <2>2, <2>3 DEF BInv, Numbered
  <2>7. RowsShown'
    <3>1. SUFFICES ASSUME NEW p \in Project, row'[p].status = "applied",
                          row'[p].act = "block"
                   PROVE  archived[p] # "no"
      BY DEF RowsShown
    <3>2. CASE p = a.p BY <1>2, <2>2, <3>1, <3>2 DEF IsOf, Shown
    <3>3. CASE p # a.p BY <2>2, <3>1, <3>3 DEF BInv, RowsShown
    <3> QED BY <3>2, <3>3
  <2>8. BlockArchives' BY <2>4, <2>5, <2>6, AcksShown
  <2> QED BY <2>4, <2>5, <2>6, <2>7, <2>8, StepShown
<1> QED BY <1>1, <1>2

(* A command is recorded: a newer row has no status yet.                   *)
LEMMA RecordShown ==
  ASSUME IInv, IInv', BInv, NEW r \in Drain, OnlyOf(r), DrainShown(r)',
         NEW a \in Ack, Issued(a),
         row' = [row EXCEPT ![a.p] = Recorded(a)],
         UNCHANGED <<commands, acks, archived>>
  PROVE  BInv'
<1>1. a.p \in Project /\ a.g \in Nat BY DEF Ack
<1>2. /\ row'[a.p] = Recorded(a)
      /\ \A p \in Project \ {a.p} : row'[p] = row[p]
  BY <1>1 DEF IInv, TypeOK, DeviceType
<1>3. row[a.p].gen \in Nat /\ Latest(a.p) \in Nat
  BY <1>1, CountType DEF IInv
<1>4. \A p \in Project : Latest(p)' = Latest(p) BY DEF Latest
<1>5. CASE IsNewer(a)
  <2>1. row'[a.p].gen = a.g /\ row'[a.p].status = "none"
    BY <1>2, <1>5 DEF Recorded
  <2>2. a.g > row[a.p].gen BY <1>1, <1>3, <1>5 DEF IsNewer
  <2>3. Rises BY <1>1, <1>2, <1>3, <1>4, <2>1, <2>2, CountType DEF IInv, Rises
  <2>4. SameAct BY <1>2, <1>3, <2>1, <2>2 DEF SameAct
  <2>5. StillArchived BY DEF StillArchived
  <2>6. Numbered'
    <3>1. a.g \in 1 .. MaxCommands[a.p]
      <4>1. Latest(a.p) <= MaxCommands[a.p] /\ MaxCommands[a.p] \in Nat
        BY <1>1, QuarantineAssumption DEF BInv, Numbered
      <4> QED BY <1>1, <1>3, <4>1 DEF Issued
    <3> QED BY <1>2, <1>4, <2>1, <3>1 DEF BInv, Numbered
  <2>7. RowsShown' BY <1>2, <2>1 DEF BInv, RowsShown
  <2>8. BlockArchives' BY <2>3, <2>4, <2>5, <2>6, AcksShown
  <2> QED BY <2>3, <2>4, <2>5, <2>6, <2>7, <2>8, StepShown
<1>6. CASE ~IsNewer(a)
  <2>1. row' = row
    BY <1>1, <1>6 DEF Recorded, IInv, TypeOK, DeviceType
  <2> QED BY <2>1, QuietShown
<1> QED BY <1>5, <1>6

-----------------------------------------------------------------------------
(* Each step keeps it shown.                                               *)

(* A drain that is over has nothing to report.                             *)
LEMMA EndedShown ==
  ASSUME NEW r \in Drain, pc'[r] = "idle"
  PROVE  DrainShown(r)'
BY DEF DrainShown, Resending, Reporting

LEMMA StartDrainShown ==
  ASSUME IInv, IInv', BInv, NEW r \in Drain, StartDrain(r)
  PROVE  BInv'
<1> DEFINE T == {Owed(p) : p \in {q \in Project : row[q].pending}}
<1>1. \A a \in T : Shown(a)
  <2>1. SUFFICES ASSUME NEW p \in Project PROVE Shown(Owed(p))
    OBVIOUS
  <2> DEFINE a == Owed(p)
  <2>2. /\ a.p = p
        /\ a.status = "applied" => row[p].status = "applied"
    BY DEF Owed
  <2> HIDE DEF a
  <2>3. Shown(a) BY <2>2 DEF Shown, BInv, RowsShown
  <2> QED BY <2>3 DEF a
<1> HIDE DEF T
<1>2. /\ pc' = [pc EXCEPT ![r] = "retry"]
      /\ todo' = [todo EXCEPT ![r] = T]
      /\ UNCHANGED <<commands, acks, row, archived, current>>
  BY DEF StartDrain, T, server, device
<1>3. pc'[r] = "retry" /\ todo'[r] = T /\ OnlyOf(r)
  BY <1>2 DEF OnlyOf, IInv, TypeOK, DrainsType
<1>4. \A a : Shown(a)' = Shown(a) BY <1>2 DEF Shown
<1>5. DrainShown(r)'
  BY <1>1, <1>3, <1>4 DEF DrainShown, Reporting
<1> QED BY <1>2, <1>3, <1>5, QuietShown

LEMMA RetryShown ==
  ASSUME IInv, IInv', BInv, NEW r \in Drain, Retry(r) \/ RetryLost(r)
  PROVE  BInv'
<1>1. pc[r] = "retry" /\ UNCHANGED <<commands, row, archived>>
  BY DEF Retry, RetryLost, device
<1>2. PICK a \in todo[r] :
        /\ todo' = [todo EXCEPT ![r] = @ \ {a}]
        /\ RecordAck(a) \/ UNCHANGED acks
        /\ \/ UNCHANGED <<pc, current>>
           \/ /\ current' = [current EXCEPT ![r] = a]
              /\ pc' = [pc EXCEPT ![r] = "retried"]
  BY DEF Retry, RetryLost
<1>3. Resending(r) BY <1>1 DEF Resending
<1>4. a \in Ack /\ \A b \in todo[r] : Shown(b)
  BY <1>3, ResentType DEF BInv, DrainShown
<1>5. /\ OnlyOf(r) /\ todo'[r] = todo[r] \ {a}
      /\ \/ pc'[r] = "retry"
         \/ pc'[r] = "retried" /\ current'[r] = a
  BY <1>1, <1>2 DEF OnlyOf, IInv, TypeOK, DrainsType
<1>6. \A b : Shown(b)' = Shown(b) BY <1>1 DEF Shown
<1>7. DrainShown(r)'
  <2>1. \A b \in todo'[r] : Shown(b)' BY <1>4, <1>5, <1>6
  <2>2. Shown(a)' BY <1>4, <1>6
  <2>3. pc'[r] \in Reporting => Shown(current[r])'
    <3>1. SUFFICES ASSUME pc'[r] \in Reporting PROVE Shown(current[r])'
      OBVIOUS
    <3>2. current'[r] = a BY <1>5, <3>1 DEF Reporting
    <3> QED BY <1>1, <2>2, <3>2 DEF Shown
  <2>4. pc'[r] # "restore" BY <1>5
  <2> QED BY <2>1, <2>3, <2>4 DEF DrainShown
<1> QED BY <1>1, <1>2, <1>4, <1>5, <1>7, ToldShown

LEMMA SettleShown ==
  ASSUME IInv, IInv', BInv, NEW r \in Drain, RetrySettled(r) \/ SettleSent(r)
  PROVE  BInv'
<1> DEFINE a == current[r]
<1>1. /\ pc[r] \in {"retried", "settle"} /\ Settle(a)
      /\ UNCHANGED <<commands, acks, archived>>
  BY DEF RetrySettled, SettleSent, server
<1>2. a \in Ack BY <1>1, HandledType DEF Handling
<1>3. Shown(a) BY <1>1 DEF BInv, DrainShown, Reporting
<1>4. row' = IF IsOf(a)
               THEN [row EXCEPT ![a.p].pending = FALSE, ![a.p].status = a.status]
               ELSE row
  BY <1>1 DEF Settle
<1>5. OnlyOf(r) /\ DrainShown(r)'
  <2>1. CASE RetrySettled(r)
    <3>1. OnlyOf(r) /\ pc[r] = "retried" /\ pc'[r] = "retry" /\ todo'[r] = todo[r]
      BY <2>1 DEF RetrySettled, OnlyOf, IInv, TypeOK, DrainsType
    <3>2. ASSUME NEW b \in todo[r] PROVE Shown(b)'
      <4>1. Resending(r) BY <3>1 DEF Resending
      <4>2. b \in Ack /\ b.p \in Project BY <3>2, <4>1, ResentType
      <4>3. Shown(b) BY <3>2, <4>1 DEF BInv, DrainShown
      <4>4. row'[b.p].gen = row[b.p].gen /\ row'[b.p].act = row[b.p].act
        BY <1>2, <1>4, <4>2 DEF IInv, TypeOK, DeviceType, RowType
      <4> QED BY <1>1, <4>3, <4>4 DEF Shown
    <3> QED BY <3>1, <3>2 DEF DrainShown, Reporting
  <2>2. CASE SettleSent(r)
    <3>1. OnlyOf(r) /\ pc'[r] \in {"inbox", "idle"}
      BY <2>2 DEF SettleSent, End, OnlyOf, IInv, TypeOK, DrainsType
    <3> QED BY <3>1 DEF DrainShown, Resending, Reporting
  <2> QED BY <2>1, <2>2
<1> HIDE DEF a
<1>6. FALSE \in BOOLEAN OBVIOUS
<1> QED BY <1>1, <1>2, <1>3, <1>4, <1>5, <1>6, StatusShown

LEMMA MovesOnShown ==
  ASSUME IInv, IInv', BInv, NEW r \in Drain, RetriesDone(r) \/ Poll(r) \/ Sync(r)
  PROVE  BInv'
<1>1. /\ UNCHANGED <<commands, acks, row, archived>>
      /\ OnlyOf(r) /\ pc'[r] \in {"poll", "inbox", "refused", "idle"}
  BY DEF RetriesDone, Poll, Sync, End, OnlyOf, IInv, TypeOK, DrainsType, server, device
<1>2. DrainShown(r)' BY <1>1 DEF DrainShown, Resending, Reporting
<1> QED BY <1>1, <1>2, QuietShown

LEMMA NextCommandShown ==
  ASSUME IInv, IInv', BInv, NEW r \in Drain, NextCommand(r)
  PROVE  BInv'
<1>1. PICK a \in todo[r] :
        /\ todo' = [todo EXCEPT ![r] = @ \ {a}]
        /\ row' = [row EXCEPT ![a.p] = Recorded(a)]
        /\ \/ pc' = [pc EXCEPT ![r] = "apply"]
           \/ /\ current' = [current EXCEPT ![r] = [a EXCEPT !.status = "skipped"]]
              /\ pc' = [pc EXCEPT ![r] = "pending"]
        /\ \E s \in AckStatus : current' = [current EXCEPT ![r] = [a EXCEPT !.status = s]]
  BY DEF NextCommand, AckStatus
<1>2. pc[r] = "inbox" /\ UNCHANGED <<commands, acks, archived>>
  BY DEF NextCommand, server
<1>3. a \in Ack /\ Issued(a)
  BY <1>2 DEF IInv, InHand, TodoOf, Resending, TypeOK, DrainsType
<1>4. /\ OnlyOf(r)
      /\ \/ pc'[r] = "apply"
         \/ pc'[r] = "pending" /\ current'[r].status = "skipped"
  <2>1. OnlyOf(r) BY <1>1 DEF OnlyOf, IInv, TypeOK, DrainsType
  <2>2. [a EXCEPT !.status = "skipped"].status = "skipped" BY <1>3 DEF Ack
  <2> QED BY <1>1, <2>1, <2>2 DEF IInv, TypeOK, DrainsType
<1>5. DrainShown(r)'
  BY <1>4 DEF DrainShown, Resending, Reporting, Shown
<1> QED BY <1>1, <1>2, <1>3, <1>4, <1>5, RecordShown

LEMMA HandleBlockedShown ==
  ASSUME IInv, IInv', BInv, NEW r \in Drain, HandleBlocked(r)
  PROVE  BInv'
<1> DEFINE a == current[r]
<1>1. /\ pc[r] = "refused" /\ row' = [row EXCEPT ![a.p] = Recorded(a)]
      /\ UNCHANGED <<commands, acks, archived>>
  BY DEF HandleBlocked, server
<1>2. a \in Ack /\ Issued(a) BY <1>1 DEF IInv, InHand, CurrentOf
<1>3. OnlyOf(r) /\ pc'[r] = "apply"
  BY DEF HandleBlocked, OnlyOf, IInv, TypeOK, DrainsType
<1>4. DrainShown(r)' BY <1>3 DEF DrainShown, Resending, Reporting
<1> HIDE DEF a
<1> QED BY <1>1, <1>2, <1>3, <1>4, RecordShown

(* The row is at the command in hand or beyond it: at it, it says what the *)
(* command does.                                                           *)
LEMMA ReadRowShown ==
  ASSUME IInv, IInv', BInv, NEW r \in Drain, ReadRow(r)
  PROVE  BInv'
<1>1. /\ UNCHANGED <<commands, acks, row, archived>> /\ OnlyOf(r)
      /\ current'[r] = current[r]
      /\ \/ pc'[r] = "archive"
         \/ pc'[r] = "restore" /\ row[current[r].p].act # "block"
  BY DEF ReadRow, OnlyOf, IInv, TypeOK, DrainsType, server, device
<1>2. DrainShown(r)' BY <1>1 DEF DrainShown, Resending, Reporting
<1> QED BY <1>1, <1>2, QuietShown

LEMMA ArchiveShown ==
  ASSUME IInv, IInv', BInv, NEW r \in Drain, Archive(r)
  PROVE  BInv'
<1> DEFINE a == current[r]
<1>1. /\ pc[r] = "archive" /\ UNCHANGED <<commands, acks, row>>
      /\ OnlyOf(r) /\ pc'[r] \in {"mark", "pending"}
  BY DEF Archive, OnlyOf, IInv, TypeOK, DrainsType, server
<1>2. a \in Ack /\ a.p \in Project BY <1>1, HandledType DEF Handling
<1>3. /\ \A p \in Project : archived[p] # "no" => archived'[p] # "no"
      /\ archived'[a.p] # "no" \/ current'[r].status = "failed"
      /\ current'[r] = a \/ current'[r].status = "failed"
  <2>1. Failed(a).status = "failed" BY <1>2 DEF Failed, Ack
  <2>2. CASE /\ archived' = [archived EXCEPT ![a.p] = "quarantine"]
             /\ UNCHANGED current
    BY <1>2, <2>2 DEF IInv, TypeOK, DeviceType
  <2>3. CASE current' = [current EXCEPT ![r] = Failed(@)] /\ UNCHANGED archived
    BY <2>1, <2>3 DEF IInv, TypeOK, DrainsType
  <2>4. CASE archived[a.p] # "no" /\ UNCHANGED <<archived, current>>
    BY <2>4
  <2> QED BY <2>2, <2>3, <2>4 DEF Archive
<1>4. DrainShown(r)'
  <2>1. Shown(current[r])'
    <3>1. CASE current'[r].status = "failed" BY <3>1 DEF Shown
    <3>2. CASE current'[r] = a /\ archived'[a.p] # "no" BY <3>2 DEF Shown
    <3> QED BY <1>3, <3>1, <3>2
  <2> QED BY <1>1, <2>1 DEF DrainShown, Resending
<1>5. Rises BY <1>1, SameRises DEF IInv
<1>6. SameAct /\ StillArchived BY <1>1, <1>3 DEF SameAct, StillArchived
<1>7. Numbered' /\ RowsShown'
  BY <1>1, <1>3 DEF BInv, Numbered, RowsShown, Latest
<1>8. BlockArchives' BY <1>1, <1>5, <1>6, <1>7, AcksShown
<1> QED BY <1>1, <1>4, <1>5, <1>6, <1>7, <1>8, StepShown

LEMMA MarkShown ==
  ASSUME IInv, IInv', BInv, NEW r \in Drain, Mark(r)
  PROVE  BInv'
<1>1. /\ pc[r] = "mark" /\ UNCHANGED <<commands, acks, row, archived, current>>
      /\ OnlyOf(r) /\ pc'[r] = "pending"
  BY DEF Mark, OnlyOf, IInv, TypeOK, DrainsType, server
<1>2. Shown(current[r])'
  BY <1>1 DEF BInv, DrainShown, Reporting, Shown
<1>3. DrainShown(r)' BY <1>1, <1>2 DEF DrainShown, Resending
<1> QED BY <1>1, <1>3, QuietShown

LEMMA RestoreShown ==
  ASSUME IInv, IInv', BInv, NEW r \in Drain, Restore(r), ~RestoredOverBlock
  PROVE  BInv'
<1> DEFINE a == current[r]
<1>1. /\ pc[r] = "restore" /\ UNCHANGED <<commands, acks, row, current>>
      /\ OnlyOf(r) /\ pc'[r] = "pending"
  BY DEF Restore, OnlyOf, IInv, TypeOK, DrainsType, server
<1>2. a.p \in Project BY <1>1, HandledType DEF Handling
<1>3. row[a.p].act # "block" BY DEF RestoredOverBlock
<1>4. \A p \in Project \ {a.p} : archived'[p] = archived[p]
  BY <1>2 DEF Restore, IInv, TypeOK, DeviceType
<1>5. Rises BY <1>1, SameRises DEF IInv
<1>6. SameAct /\ StillArchived BY <1>1, <1>3, <1>4 DEF SameAct, StillArchived
<1>7. Numbered' /\ RowsShown'
  BY <1>1, <1>3, <1>4 DEF BInv, Numbered, RowsShown, Latest
<1>8. BlockArchives' BY <1>1, <1>5, <1>6, <1>7, AcksShown
<1>9. Shown(current[r])' BY <1>1, <1>3 DEF Shown
<1>10. DrainShown(r)' BY <1>1, <1>9 DEF DrainShown, Resending
<1> QED BY <1>1, <1>5, <1>6, <1>7, <1>8, <1>10, StepShown

LEMMA RecordPendingShown ==
  ASSUME IInv, IInv', BInv, NEW r \in Drain, RecordPending(r)
  PROVE  BInv'
<1> DEFINE a == current[r]
<1>1. pc[r] = "pending" /\ UNCHANGED <<commands, acks, archived>>
  BY DEF RecordPending, server
<1>2. a \in Ack /\ a.p \in Project BY <1>1, HandledType DEF Handling
<1>3. Shown(a) BY <1>1 DEF BInv, DrainShown, Reporting
<1>4. row' = IF IsOf(a)
               THEN [row EXCEPT ![a.p].pending = TRUE, ![a.p].status = a.status]
               ELSE row
  BY DEF RecordPending
<1>5. /\ OnlyOf(r)
      /\ \/ pc'[r] = "idle"
         \/ pc'[r] = "send" /\ current'[r] = a
  BY DEF RecordPending, End, OnlyOf, IInv, TypeOK, DrainsType
<1>6. row'[a.p].gen = row[a.p].gen /\ row'[a.p].act = row[a.p].act
  BY <1>2, <1>4 DEF IInv, TypeOK, DeviceType, RowType
<1>7. DrainShown(r)'
  <2>1. CASE pc'[r] = "idle" BY <2>1, EndedShown
  <2>2. CASE pc'[r] = "send" /\ current'[r] = a
    <3>1. Shown(current[r])' BY <1>1, <1>3, <1>6, <2>2 DEF Shown
    <3> QED BY <2>2, <3>1 DEF DrainShown, Resending
  <2> QED BY <1>5, <2>1, <2>2
<1> HIDE DEF a
<1>8. TRUE \in BOOLEAN OBVIOUS
<1> QED BY <1>1, <1>2, <1>3, <1>4, <1>5, <1>7, <1>8, StatusShown

LEMMA SendShown ==
  ASSUME IInv, IInv', BInv, NEW r \in Drain, Send(r) \/ Unheard(r)
  PROVE  BInv'
<1> DEFINE a == current[r]
<1>1. /\ pc[r] = "send" /\ UNCHANGED <<commands, row, archived>>
      /\ RecordAck(a) \/ UNCHANGED acks
  BY DEF Send, Unheard, device
<1>2. a \in Ack BY <1>1, HandledType DEF Handling
<1>3. Shown(a) BY <1>1 DEF BInv, DrainShown, Reporting
<1>4. /\ OnlyOf(r)
      /\ \/ pc'[r] = "idle"
         \/ pc'[r] = "settle" /\ current'[r] = a
  BY DEF Send, Unheard, End, OnlyOf, IInv, TypeOK, DrainsType
<1>5. DrainShown(r)'
  <2>1. CASE pc'[r] = "idle" BY <2>1, EndedShown
  <2>2. CASE pc'[r] = "settle" /\ current'[r] = a
    <3>1. Shown(current[r])' BY <1>1, <1>3, <2>2 DEF Shown
    <3> QED BY <2>2, <3>1 DEF DrainShown, Resending
  <2> QED BY <1>4, <2>1, <2>2
<1> HIDE DEF a
<1> QED BY <1>1, <1>2, <1>3, <1>4, <1>5, ToldShown

LEMMA InterruptShown ==
  ASSUME IInv, IInv', BInv, NEW r \in Drain, Interrupt(r)
  PROVE  BInv'
<1>1. /\ UNCHANGED <<commands, acks, row, archived>> /\ OnlyOf(r) /\ pc'[r] = "idle"
  BY DEF Interrupt, End, OnlyOf, IInv, TypeOK, DrainsType, server, device
<1> QED BY <1>1, EndedShown, QuietShown

(* No drain but those that end is disturbed.                               *)
LEMMA RestShown ==
  ASSUME IInv, IInv', BInv, UNCHANGED <<acks, row>>, Rises, StillArchived,
         Numbered', RowsShown',
         \A s \in Drain : \/ pc'[s] = "idle"
                          \/ pc'[s] = pc[s] /\ todo'[s] = todo[s]
                             /\ current'[s] = current[s]
  PROVE  BInv'
<1>1. SameAct BY DEF SameAct
<1>2. \A s \in Drain : DrainShown(s)'
  BY <1>1, EndedShown, OthersShown
<1>3. BlockArchives' BY <1>1, AcksShown
<1> QED BY <1>2, <1>3 DEF BInv

LEMMA CrashShown ==
  ASSUME IInv, IInv', BInv, NEW x, Crash(x)
  PROVE  BInv'
<1>1. /\ UNCHANGED <<commands, acks, row, archived>>
      /\ \A s \in Drain : \/ pc'[s] = "idle"
                          \/ pc'[s] = pc[s] /\ todo'[s] = todo[s]
                             /\ current'[s] = current[s]
  BY DEF Crash, server, device
<1>2. Rises BY <1>1, SameRises DEF IInv
<1>3. Numbered' /\ RowsShown' /\ StillArchived
  BY <1>1 DEF BInv, Numbered, RowsShown, StillArchived, Latest
<1> QED BY <1>1, <1>2, <1>3, RestShown

LEMMA BlockProjectShown ==
  ASSUME IInv, IInv', BInv, NEW p \in Project, NEW act \in Action, BlockProject(p, act)
  PROVE  BInv'
<1>1. /\ Latest(p) < MaxCommands[p]
      /\ commands' = [commands EXCEPT ![p] = Append(@, act)]
      /\ UNCHANGED <<acks, row, archived, pc, todo, current>>
  BY DEF BlockProject, device, drains
<1>2. /\ commands'[p] = Append(commands[p], act) /\ commands[p] \in Seq(Action)
      /\ \A q \in Project \ {p} : commands'[q] = commands[q]
  BY <1>1 DEF IInv, TypeOK, ServerType
<1>3. \A s \in Seq(Action) : Len(Append(s, act)) = Len(s) + 1
  OBVIOUS
<1>4. Latest(p)' = Latest(p) + 1 /\ \A q \in Project \ {p} : Latest(q)' = Latest(q)
  BY <1>2, <1>3 DEF Latest
<1>5. \A q \in Project : row[q].gen \in Nat /\ Latest(q) \in Nat
  BY CountType DEF IInv
<1>6. Rises BY <1>1, <1>4, <1>5 DEF Rises
<1>7. Numbered'
  BY <1>1, <1>4, <1>5, QuarantineAssumption DEF BInv, Numbered
<1>8. RowsShown' /\ StillArchived
  BY <1>1 DEF BInv, RowsShown, StillArchived
<1> QED BY <1>1, <1>6, <1>7, <1>8, RestShown

LEMMA UserShown ==
  ASSUME IInv, IInv', BInv, NEW p \in Project, UserArchive(p) \/ UserWrite(p)
  PROVE  BInv'
<1>1. /\ UNCHANGED <<commands, acks, row, pc, todo, current>>
      /\ \A q \in Project : archived[q] # "no" => archived'[q] # "no"
  BY DEF UserArchive, UserWrite, server, drains, IInv, TypeOK, DeviceType
<1>2. Rises BY <1>1, SameRises DEF IInv
<1>3. Numbered' /\ RowsShown' /\ StillArchived
  BY <1>1 DEF BInv, Numbered, RowsShown, StillArchived, Latest
<1> QED BY <1>1, <1>2, <1>3, RestShown

LEMMA StutterShown ==
  ASSUME IInv, IInv', BInv, UNCHANGED vars
  PROVE  BInv'
<1>1. UNCHANGED <<commands, acks, row, archived, pc, todo, current>>
  BY DEF vars, server, device, drains
<1>2. Rises BY <1>1, SameRises DEF IInv
<1>3. Numbered' /\ RowsShown' /\ StillArchived
  BY <1>1 DEF BInv, Numbered, RowsShown, StillArchived, Latest
<1> QED BY <1>1, <1>2, <1>3, RestShown

LEMMA StepKeepsShown ==
  ASSUME IInv, IInv', BInv, [Next]_vars, [~RestoredOverBlock]_vars
  PROVE  BInv'
<1>1. CASE UNCHANGED vars BY <1>1, StutterShown
<1>2. CASE Next /\ ~RestoredOverBlock
  <2>1. ASSUME NEW p \in Project, NEW act \in Action, BlockProject(p, act) PROVE BInv'
    BY <2>1, BlockProjectShown
  <2>2. ASSUME NEW r \in Drain, DrainStep(r) PROVE BInv'
    BY <1>2, <2>2, StartDrainShown, RetryShown, SettleShown, MovesOnShown,
       NextCommandShown, HandleBlockedShown, ReadRowShown, ArchiveShown, MarkShown,
       RestoreShown, RecordPendingShown, SendShown
    DEF DrainStep
  <2>3. ASSUME NEW r \in Drain, Interrupt(r) \/ Unheard(r) \/ RetryLost(r) PROVE BInv'
    BY <2>3, InterruptShown, SendShown, RetryShown
  <2>4. ASSUME NEW x, Crash(x) PROVE BInv'
    BY <2>4, CrashShown
  <2>5. ASSUME NEW p \in Project, UserArchive(p) \/ UserWrite(p) PROVE BInv'
    BY <2>5, UserShown
  <2> QED BY <1>2, <2>1, <2>2, <2>3, <2>4, <2>5 DEF Next
<1> QED BY <1>1, <1>2

LEMMA InitShown ==
  ASSUME Init
  PROVE  BInv
<1>1. \A p \in Project : row[p] = NoRow /\ commands[p] = <<>> BY DEF Init
<1>2. \A p \in Project : row[p].act = "unblock" /\ row[p].gen = 0
  <2>1. NoRow.act = "unblock" /\ NoRow.gen = 0 BY DEF NoRow
  <2> QED BY <1>1, <2>1
<1>3. Numbered
  <2>1. SUFFICES ASSUME NEW p \in Project
                 PROVE  /\ Latest(p) <= MaxCommands[p]
                        /\ row[p].act = "block" => row[p].gen \in 1 .. MaxCommands[p]
    BY DEF Numbered
  <2>2. Len(<<>>) = 0 OBVIOUS
  <2>3. Latest(p) = 0 BY <1>1, <2>2, Zenon DEF Latest
  <2>4. MaxCommands[p] \in Nat BY QuarantineAssumption
  <2> QED BY <1>2, <2>3, <2>4
<1>4. RowsShown /\ BlockArchives BY <1>2 DEF RowsShown, BlockArchives
<1>5. \A r \in Drain : DrainShown(r)
  BY DEF Init, DrainShown, Resending, Reporting
<1> QED BY <1>3, <1>4, <1>5 DEF BInv

(* QuarantineBlockedProject reads the row and then does what it says       *)
(* (project_block.go:296).  So long as no drain restores a project that    *)
(* another drain's newer block has reached meanwhile, a block acknowledged *)
(* as applied is archived, whatever is lost or crashes.                    *)
THEOREM BlockStaysArchived ==
  Spec /\ [][~RestoredOverBlock]_vars => []BlockArchives
<1>1. Init => BInv BY InitShown
<1>2. IInv /\ IInv' /\ BInv /\ [Next]_vars /\ [~RestoredOverBlock]_vars => BInv'
  BY StepKeepsShown
<1>3. BInv => BlockArchives BY DEF BInv
<1> QED BY <1>1, <1>2, <1>3, Invariance, PTL DEF Spec

-----------------------------------------------------------------------------
(* On a device with one drain nothing comes between reading a row and      *)
(* doing what it says.                                                     *)
ReadIsCurrent ==
  \A r \in Drain : pc[r] = "restore" => row[current[r].p].act # "block"

LEMMA AloneReads ==
  ASSUME \A r, s \in Drain : r = s, IInv, ReadIsCurrent, [Next]_vars
  PROVE  ReadIsCurrent'
<1>1. ASSUME UNCHANGED <<row, pc, current>> PROVE ReadIsCurrent'
  BY <1>1 DEF ReadIsCurrent
<1>2. ASSUME NEW r \in Drain, ReadRow(r) PROVE ReadIsCurrent'
  <2>1. /\ pc'[r] \in {"archive", "restore"} /\ UNCHANGED <<row, current>>
        /\ row[current[r].p].act = "block" => pc'[r] = "archive"
    BY <1>2 DEF ReadRow, IInv, TypeOK, DrainsType, device
  <2> QED BY <2>1 DEF ReadIsCurrent
<1>3. ASSUME NEW r \in Drain, DrainStep(r) \/ Interrupt(r) \/ Unheard(r), ~ReadRow(r)
      PROVE  pc'[r] # "restore"
  BY <1>3 DEF DrainStep, StartDrain, Retry, RetrySettled, RetriesDone, Poll,
     NextCommand, Sync, HandleBlocked, Archive, Mark, Restore, RecordPending, Send,
     SettleSent, Interrupt, Unheard, End, IInv, TypeOK, DrainsType
<1>4. ASSUME NEW r \in Drain, RetryLost(r) PROVE ReadIsCurrent'
  BY <1>1, <1>4 DEF RetryLost, device
<1>5. ASSUME NEW x, Crash(x) PROVE ReadIsCurrent'
  <2>1. /\ UNCHANGED row
        /\ \A s \in Drain : \/ pc'[s] = "idle"
                            \/ pc'[s] = pc[s] /\ current'[s] = current[s]
    BY <1>5 DEF Crash, device
  <2> QED BY <2>1 DEF ReadIsCurrent
<1>6. ASSUME NEW p \in Project, NEW act \in Action, BlockProject(p, act)
      PROVE  ReadIsCurrent'
  BY <1>1, <1>6 DEF BlockProject, device, drains
<1>7. ASSUME NEW p \in Project, UserArchive(p) \/ UserWrite(p) PROVE ReadIsCurrent'
  BY <1>1, <1>7 DEF UserArchive, UserWrite, drains
<1>8. ASSUME UNCHANGED vars PROVE ReadIsCurrent'
  BY <1>1, <1>8 DEF vars, device, drains
<1>9. ASSUME NEW r \in Drain, DrainStep(r) \/ Interrupt(r) \/ Unheard(r)
      PROVE  ReadIsCurrent'
  <2>1. CASE ReadRow(r) BY <1>2, <2>1
  <2>2. CASE ~ReadRow(r) BY <1>3, <1>9, <2>2 DEF ReadIsCurrent
  <2> QED BY <2>1, <2>2
<1> QED BY <1>4, <1>5, <1>6, <1>7, <1>8, <1>9 DEF Next

(* A device that syncs one project, one Drain at a time, needs no such     *)
(* condition: a block it acknowledged as applied is archived.              *)
THEOREM AloneBlockArchives ==
  ASSUME \A r, s \in Drain : r = s
  PROVE  Spec => []BlockArchives
<1>1. Init => ReadIsCurrent BY DEF Init, ReadIsCurrent
<1>2. IInv /\ ReadIsCurrent /\ [Next]_vars => ReadIsCurrent' BY AloneReads
<1>3. ReadIsCurrent /\ [Next]_vars => [~RestoredOverBlock]_vars
  BY DEF ReadIsCurrent, RestoredOverBlock, Restore
<1> QED BY <1>1, <1>2, <1>3, Invariance, BlockStaysArchived, PTL DEF Spec
=============================================================================
