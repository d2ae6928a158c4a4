------------------------ MODULE HybridProgress_proofs ------------------------
(***************************************************************************)
(* Proofs about HybridProgress, for any clients, items and bounds.         *)
(*                                                                         *)
(* The argument: one client at a time is inside Hybrid.advance, and what   *)
(* it writes extends the head by one snapshot, the only one published      *)
(* beyond it.  It reaches the Hive side with a request the head extends,   *)
(* so the Hive head is always an ancestor of the other.                    *)
(***************************************************************************)
EXTENDS HybridProgress, TLAPS

-----------------------------------------------------------------------------
(* Histories are sequences of different items.                             *)
LEMMA HistoryIs ==
  ASSUME NEW s \in History
  PROVE  /\ s \in Seq(Item) /\ Len(s) \in 0 .. Writes
         /\ \A i \in 1 .. Len(s) : s[i] \in Item
         /\ \A i, j \in 1 .. Len(s) : s[i] = s[j] => i = j
         /\ s # <<>> => s \in Snapshot /\ Len(s) >= 1
<1>1. CASE s = <<>>
  BY <1>1, HybridProgressAssumption
<1>2. CASE s # <<>>
  <2>1. s \in Snapshot
    BY <1>2 DEF History
  <2>2. PICK n \in 1 .. Writes : s \in [1 .. n -> Item]
    BY <2>1 DEF Snapshot
  <2>3. s \in Seq(Item) /\ Len(s) = n
    BY <2>2
  <2>4. \A i, j \in 1 .. Len(s) : s[i] = s[j] => i = j
    BY <2>1 DEF Snapshot
  <2>. QED BY <2>1, <2>2, <2>3, <2>4, HybridProgressAssumption
<1>. QED BY <1>1, <1>2

LEMMA SnapshotIs ==
  ASSUME NEW s \in Snapshot
  PROVE  s \in History /\ s # <<>> /\ Len(s) \in 1 .. Writes
<1>1. PICK n \in 1 .. Writes : s \in [1 .. n -> Item]
  BY DEF Snapshot
<1>2. Len(s) = n
  BY <1>1
<1>. QED BY <1>2 DEF History

LEMMA IsSnapshot ==
  ASSUME NEW s \in Seq(Item), Len(s) \in 1 .. Writes,
         \A i, j \in 1 .. Len(s) : s[i] = s[j] => i = j
  PROVE  s \in Snapshot
<1>. DEFINE n == Len(s)
<1>1. s \in [1 .. n -> Item] /\ n \in 1 .. Writes
  OBVIOUS
<1>. HIDE DEF n
<1>2. s \in UNION {[1 .. k -> Item] : k \in 1 .. Writes}
  BY <1>1
<1>. QED BY <1>2 DEF Snapshot, n

(* What the first items of a sequence are.                                 *)
LEMMA PartIs ==
  ASSUME NEW t \in Seq(Item), NEW n \in Nat, n <= Len(t)
  PROVE  /\ SubSeq(t, 1, n) \in Seq(Item) /\ Len(SubSeq(t, 1, n)) = n
         /\ \A i \in 1 .. n : SubSeq(t, 1, n)[i] = t[i]
<1>1. \A i \in 1 .. n : t[i] \in Item
  OBVIOUS
<1>2. SubSeq(t, 1, n) = [i \in 1 .. n |-> t[i]]
  OBVIOUS
<1>. QED BY <1>1, <1>2

LEMMA BaseIs ==
  ASSUME NEW s \in Snapshot
  PROVE  /\ Base(s) \in Seq(Item) /\ Len(Base(s)) = Len(s) - 1
         /\ \A i \in 1 .. Len(s) - 1 : Base(s)[i] = s[i]
<1>1. s \in Seq(Item) /\ Len(s) \in Nat /\ Len(s) >= 1
  BY SnapshotIs, HistoryIs
<1>. QED BY <1>1, PartIs DEF Base

(* A snapshot is its base and one item more.                               *)
LEMMA BaseAndItem ==
  ASSUME NEW s \in Snapshot
  PROVE  /\ s = Append(Base(s), s[Len(s)]) /\ s[Len(s)] \in Item
         /\ ~Holds(Base(s), s[Len(s)])
<1>1. s \in Seq(Item) /\ Len(s) \in Nat /\ Len(s) >= 1
  BY SnapshotIs, HistoryIs
<1>2. s[Len(s)] \in Item
  BY <1>1
<1>3. /\ Append(Base(s), s[Len(s)]) \in Seq(Item)
      /\ Len(Append(Base(s), s[Len(s)])) = Len(s)
      /\ \A i \in 1 .. Len(s) : Append(Base(s), s[Len(s)])[i] = s[i]
  BY <1>1, <1>2, BaseIs
<1>4. s = Append(Base(s), s[Len(s)])
  BY <1>1, <1>3
<1>5. ~Holds(Base(s), s[Len(s)])
  BY <1>1, BaseIs, SnapshotIs, HistoryIs DEF Holds
<1>. QED BY <1>2, <1>4, <1>5

LEMMA AppendIs ==
  ASSUME NEW s \in History, NEW i \in Item, ~Holds(s, i), Len(s) < Writes
  PROVE  Append(s, i) \in Snapshot
<1>1. s \in Seq(Item) /\ Len(s) \in Nat
      /\ \A k, l \in 1 .. Len(s) : s[k] = s[l] => k = l
  BY HistoryIs
<1>. DEFINE t == Append(s, i)
<1>2. t \in Seq(Item) /\ Len(t) = Len(s) + 1 /\ t[Len(s) + 1] = i
      /\ \A k \in 1 .. Len(s) : t[k] = s[k]
  BY <1>1
<1>3. \A k, l \in 1 .. Len(t) : t[k] = t[l] => k = l
  BY <1>1, <1>2 DEF Holds
<1>4. Len(t) \in 1 .. Writes
  BY <1>1, <1>2, HybridProgressAssumption
<1>. QED BY <1>2, <1>3, <1>4, IsSnapshot

-----------------------------------------------------------------------------
(* The order of histories.                                                 *)
LEMMA PrefixSelf == ASSUME NEW s \in History PROVE Prefix(s, s)
BY HistoryIs DEF Prefix

LEMMA PrefixOfMore ==
  ASSUME NEW s \in Snapshot, NEW t \in History, Prefix(t, Base(s))
  PROVE  Prefix(t, s)
<1>1. Len(s) \in Nat /\ Len(t) \in Nat /\ Len(Base(s)) = Len(s) - 1
      /\ \A i \in 1 .. Len(s) - 1 : Base(s)[i] = s[i]
  BY BaseIs, SnapshotIs, HistoryIs
<1>. QED BY <1>1 DEF Prefix

LEMMA PrefixOfNext ==
  ASSUME NEW s \in Snapshot, NEW t \in History, Prefix(t, s)
  PROVE  t = s \/ Prefix(t, Base(s))
<1>1. /\ Len(s) \in Nat /\ Len(t) \in Nat /\ Len(Base(s)) = Len(s) - 1
      /\ \A i \in 1 .. Len(s) - 1 : Base(s)[i] = s[i]
      /\ s \in Seq(Item) /\ t \in Seq(Item)
  BY BaseIs, SnapshotIs, HistoryIs
<1>2. CASE Len(t) = Len(s)
  <2>1. \A i \in 1 .. Len(s) : t[i] = s[i]
    BY <1>2 DEF Prefix
  <2>. QED BY <1>1, <1>2, <2>1
<1>3. CASE Len(t) # Len(s)
  BY <1>1, <1>3 DEF Prefix
<1>. QED BY <1>2, <1>3

LEMMA PrefixIsPart ==
  ASSUME NEW s \in Seq(Item), NEW t \in Seq(Item), Prefix(s, t)
  PROVE  s = SubSeq(t, 1, Len(s))
<1>1. Len(s) \in Nat /\ Len(t) \in Nat /\ Len(s) <= Len(t)
  BY DEF Prefix
<1>2. /\ SubSeq(t, 1, Len(s)) \in Seq(Item)
      /\ Len(SubSeq(t, 1, Len(s))) = Len(s)
      /\ \A i \in 1 .. Len(s) : SubSeq(t, 1, Len(s))[i] = t[i]
  BY <1>1
<1>. QED BY <1>1, <1>2 DEF Prefix

LEMMA AncestorsAre ==
  ASSUME NEW t \in History
  PROVE  Ancestors(t) = {s \in Snapshot : Prefix(s, t)}
<1>. /\ t \in Seq(Item) /\ Len(t) \in 0 .. Writes /\ Writes \in Nat
     /\ \A i, j \in 1 .. Len(t) : t[i] = t[j] => i = j
  BY HistoryIs, HybridProgressAssumption
<1>1. ASSUME NEW n \in 1 .. Len(t)
      PROVE  SubSeq(t, 1, n) \in Snapshot /\ Prefix(SubSeq(t, 1, n), t)
  <2>. DEFINE s == SubSeq(t, 1, n)
  <2>1. s \in Seq(Item) /\ Len(s) = n /\ \A i \in 1 .. n : s[i] = t[i]
    <3>1. n \in Nat /\ n <= Len(t)
      OBVIOUS
    <3>. QED BY <3>1, PartIs
  <2>2. s \in Snapshot
    <3>1. \A i, j \in 1 .. n : s[i] = s[j] => i = j
      BY <2>1
    <3>. HIDE DEF s
    <3>2. Len(s) \in 1 .. Writes
      BY <2>1
    <3>. QED BY <2>1, <3>1, <3>2, IsSnapshot
  <2>. QED BY <2>1, <2>2 DEF Prefix
<1>2. ASSUME NEW s \in Snapshot, Prefix(s, t)
      PROVE  s \in Ancestors(t)
  <2>1. s = SubSeq(t, 1, Len(s)) /\ Len(s) \in 1 .. Len(t)
    BY <1>2, PrefixIsPart, SnapshotIs, HistoryIs DEF Prefix
  <2>. QED BY <2>1 DEF Ancestors
<1>. QED BY <1>1, <1>2 DEF Ancestors

(* What extends the head is not behind it.                                 *)
LEMMA NextIsBeyond ==
  ASSUME NEW s \in Snapshot
  PROVE  ~Prefix(s, Base(s))
<1>1. Len(s) \in Nat /\ Len(Base(s)) = Len(s) - 1
  BY BaseIs, SnapshotIs, HistoryIs
<1>. QED BY <1>1 DEF Prefix

-----------------------------------------------------------------------------
(* Types.                                                                  *)
Requested == \A c \in Client : pc[c] # "idle" => request[c] # <<>>
TInv == TypeOK /\ Requested

LEMMA Steps ==
  ASSUME Next
  PROVE  \/ \E c \in Client :
              \/ \E i \in Item : Plan(c, i)
              \/ Advance(c) \/ Checkpoint(c) \/ ReadHive(c) \/ Lock(c)
              \/ LockBusy(c) \/ OpenEnter(c) \/ OpenBusy(c) \/ Write(c)
              \/ WriteFails(c) \/ Note(c) \/ Hive(c) \/ HiveFails(c)
              \/ Record(c) \/ RecordFailure(c) \/ Reread(c) \/ Crash(c)
         \/ ArchiveCheck \/ ArchiveMove \/ ArchiveFails
BY DEF Next, Locking, Moving, Busy, Failing

LEMMA RequestIs ==
  ASSUME TInv, NEW c \in Client, pc[c] # "idle"
  PROVE  request[c] \in Snapshot
BY HistoryIs DEF TInv, TypeOK, Requested

LEMMA InspectedIs ==
  ASSUME TInv
  PROVE  Inspected \in History \union {None}
BY DEF TInv, TypeOK, Inspected

(* A client moves on, inside or outside of Hybrid.advance.                 *)
Steplike == {"idle", "read", "lock"} \union Advancing
Answers == {"none", "committed", "stale", "blocked", "busy", "lost"}
Controls ==
  /\ pc \in [Client -> Steplike] /\ outcome \in [Client -> Answers]
  /\ \A c, d \in Client : pc[c] \in Advancing /\ pc[d] \in Advancing => c = d
  /\ Requested

LEMMA Going ==
  ASSUME TInv, NEW c \in Client, NEW step \in Steplike, Goto(c, step),
         step # "idle" => request[c] # <<>>, request' = request,
         step \in Advancing => pc[c] \in Advancing \/ HybridFree
  PROVE  Controls'
<1>. USE DEF TInv, TypeOK, Steplike, Answers
<1>1. pc' = [pc EXCEPT ![c] = step] /\ outcome' = outcome
  BY DEF Goto
<1>2. ASSUME NEW a \in Client, NEW b \in Client, pc'[a] \in Advancing, pc'[b] \in Advancing
      PROVE  a = b
  BY <1>1, <1>2 DEF HybridFree
<1>3. Requested'
  BY <1>1 DEF Requested
<1>. QED BY <1>1, <1>2, <1>3 DEF Controls

LEMMA Answering ==
  ASSUME TInv, NEW c \in Client, NEW what \in Answers, Answer(c, what),
         request' = request
  PROVE  Controls'
<1>. USE DEF TInv, TypeOK, Steplike, Answers
<1>1. pc' = [pc EXCEPT ![c] = "idle"] /\ outcome' = [outcome EXCEPT ![c] = what]
  BY DEF Answer
<1>2. ASSUME NEW a \in Client, NEW b \in Client, pc'[a] \in Advancing, pc'[b] \in Advancing
      PROVE  a = b
  BY <1>1, <1>2 DEF Advancing, Writing
<1>3. Requested'
  BY <1>1 DEF Requested
<1>. QED BY <1>1, <1>2, <1>3 DEF Controls

LEMMA Outside ==
  /\ "idle" \notin Advancing /\ "read" \notin Advancing /\ "lock" \notin Advancing
  /\ {"open", "note", "hive", "record", "conflict", "fail", "reread"} \subseteq Advancing
  /\ Writing \subseteq Advancing /\ Advancing \subseteq Steplike
  /\ {"idle", "read", "lock"} \subseteq Steplike
BY DEF Advancing, Writing, Steplike

(* The files, whoever writes them.                                         *)
Files ==
  /\ root \in {"active", "gone", "stray"}
  /\ evidence \subseteq Snapshot /\ receipts \subseteq Snapshot
  /\ head \in History
  /\ staged \subseteq [file : File, of : Snapshot, torn : BOOLEAN]
  /\ hybrid \in [Snapshot -> Receipt \union {None}]

LEMMA RecoverTypes ==
  ASSUME TInv, NEW s \in Snapshot, Recover(s)
  PROVE  Files'
BY DEF TInv, TypeOK, Recover, Found, Files

LEMMA PublishTypes ==
  ASSUME TInv, NEW s \in Snapshot, NEW file, Publish(file, s)
  PROVE  Files'
BY SnapshotIs DEF TInv, TypeOK, Publish, Files

LEMMA InterruptedTypes ==
  ASSUME TInv, NEW s \in Snapshot, NEW file \in File, Interrupted(file, s)
  PROVE  Files'
BY DEF TInv, TypeOK, Interrupted, Files, Stage

LEMMA PutTypes ==
  ASSUME TInv, NEW c \in Client, pc[c] # "idle", PutReceipt(c)
  PROVE  Files'
<1>1. request[c] \in Snapshot
  BY RequestIs
<1>. QED BY <1>1 DEF TInv, TypeOK, PutReceipt, Files

(* What a step leaves to show.                                             *)
LEMMA Typed ==
  ASSUME TInv, Files', Controls', hive' \in History,
         archiver' \in {"idle", "moving"}, request' \in [Client -> History],
         view' \in [Client -> History \union {None}],
         work' \in [Client -> Receipt], fresh' \in [Client -> BOOLEAN],
         faults' = faults \/ Fault, acked' \subseteq Snapshot
  PROVE  TInv'
<1>1. faults' \in 0 .. MaxFaults
  BY HybridProgressAssumption DEF TInv, TypeOK, Fault
<1>. QED BY <1>1 DEF TInv, TypeOK, Files, Controls, Steplike, Answers

LEMMA FilesSame ==
  ASSUME TInv, UNCHANGED folder
  PROVE  Files'
BY DEF TInv, TypeOK, folder, Files

LEMMA WorkTypes ==
  ASSUME TInv, NEW c \in Client,
         \/ work' = work
         \/ \E o \in Outcome : work' = [work EXCEPT ![c].open = o]
         \/ \E o \in Outcome : work' = [work EXCEPT ![c].hive = o]
  PROVE  work' \in [Client -> Receipt]
<1>. USE DEF TInv, TypeOK, Receipt
<1>1. ASSUME NEW o \in Outcome, work' = [work EXCEPT ![c].open = o]
      PROVE  work' \in [Client -> Receipt]
  BY <1>1
<1>2. ASSUME NEW o \in Outcome, work' = [work EXCEPT ![c].hive = o]
      PROVE  work' \in [Client -> Receipt]
  BY <1>2
<1>. QED BY <1>1, <1>2

LEMMA PlanTypes ==
  ASSUME TInv, NEW c \in Client, NEW i \in Item, Plan(c, i)
  PROVE  TInv'
<1>. USE DEF TInv, TypeOK
<1>1. PICK base \in {head, hive} :
        /\ ~Holds(base, i) /\ Len(base) < Writes
        /\ request' = [request EXCEPT ![c] = Append(base, i)]
  BY DEF Plan
<1>2. Append(base, i) \in Snapshot
  BY <1>1, AppendIs
<1>3. request' \in [Client -> History]
  BY <1>1, <1>2, SnapshotIs
<1>4. Controls'
  <2>1. Requested'
    BY <1>1, <1>2, SnapshotIs DEF Requested, Plan
  <2>. QED BY <2>1 DEF Controls, Steplike, Answers, Plan
<1>5. Files'
  BY FilesSame DEF Plan
<1>. QED BY <1>3, <1>4, <1>5, Typed DEF Plan

LEMMA ReadingTypes ==
  ASSUME TInv, NEW c \in Client, Advance(c) \/ Checkpoint(c) \/ ReadHive(c)
  PROVE  TInv'
<1>. USE DEF TInv, TypeOK
<1>1. request[c] # <<>>
  BY DEF Advance, Checkpoint, ReadHive, Settled, Requested
<1>2. \/ Goto(c, "lock") \/ Goto(c, "read") \/ Answer(c, "blocked")
  BY DEF Advance, Checkpoint, ReadHive, ToAdvance
<1>3. Controls'
  BY <1>1, <1>2, Going, Answering, Outside
  DEF Answers, Advance, Checkpoint, ReadHive, client
<1>4. view' \in [Client -> History \union {None}]
  BY InspectedIs DEF Advance, Checkpoint, ReadHive, client
<1>5. Files'
  BY FilesSame DEF Advance, Checkpoint, ReadHive
<1>. QED BY <1>3, <1>4, <1>5, Typed
     DEF Advance, Checkpoint, ReadHive, client, NoFault

LEMMA LockTypes ==
  ASSUME TInv, NEW c \in Client, Lock(c) \/ LockBusy(c)
  PROVE  TInv'
<1>. USE DEF TInv, TypeOK
<1>1. request[c] \in Snapshot /\ request[c] # <<>>
  BY RequestIs, SnapshotIs DEF Lock, LockBusy
<1>2. \/ Goto(c, "open") /\ HybridFree
      \/ Answer(c, "committed")
      \/ Answer(c, "busy")
  BY DEF Lock, LockBusy
<1>3. Controls'
  BY <1>1, <1>2, Going, Answering, Outside DEF Answers, Lock, LockBusy, client
<1>4. work' \in [Client -> Receipt] /\ fresh' \in [Client -> BOOLEAN]
      /\ acked' \subseteq Snapshot
  <2>1. CASE Lock(c)
    <3>. DEFINE r == hybrid[request[c]]
    <3>1. (IF r = None THEN Pending ELSE r) \in Receipt /\ (r = None) \in BOOLEAN
      BY <1>1 DEF Pending, Receipt, Outcome
    <3>2. \/ UNCHANGED <<work, fresh>> /\ acked' = acked \union {request[c]}
          \/ /\ work' = [work EXCEPT ![c] = IF r = None THEN Pending ELSE r]
             /\ fresh' = [fresh EXCEPT ![c] = r = None]
             /\ acked' = acked
      BY <2>1 DEF Lock
    <3>3. \/ UNCHANGED work
          \/ \E o \in Receipt : work' = [work EXCEPT ![c] = o]
      BY <3>1, <3>2
    <3>4. work' \in [Client -> Receipt]
      BY <3>3
    <3>5. fresh' \in [Client -> BOOLEAN]
      BY <3>2
    <3>6. acked' \subseteq Snapshot
      BY <1>1, <3>2
    <3>. QED BY <3>4, <3>5, <3>6
  <2>2. CASE LockBusy(c)
    BY <2>2 DEF LockBusy, client
  <2>. QED BY <2>1, <2>2
<1>5. Files'
  BY FilesSame DEF Lock, LockBusy
<1>. QED BY <1>3, <1>4, <1>5, Typed DEF Lock, LockBusy, client, NoFault

LEMMA OpenTypes ==
  ASSUME TInv, NEW c \in Client, OpenEnter(c) \/ OpenBusy(c)
  PROVE  TInv'
<1>. USE DEF TInv, TypeOK
<1>1. request[c] \in Snapshot /\ request[c] # <<>> /\ pc[c] \in Advancing
  BY RequestIs, SnapshotIs, Outside DEF OpenEnter, OpenBusy
<1>2. \E step \in Advancing : Goto(c, step)
  BY Outside DEF OpenEnter, OpenBusy, OpenDone, Writing
<1>3. Controls'
  <2>1. PICK step \in Advancing : Goto(c, step)
    BY <1>2
  <2>2. request' = request /\ step \in Steplike
    BY Outside DEF OpenEnter, OpenBusy
  <2>. QED BY <1>1, <2>1, <2>2, Going
<1>4. work' \in [Client -> Receipt]
  <2>1. \/ UNCHANGED work
        \/ \E o \in Outcome : work' = [work EXCEPT ![c].open = o]
    BY DEF OpenEnter, OpenBusy, OpenDone, Outcome
  <2>. HIDE DEF TInv, TypeOK
  <2>. QED BY <2>1, WorkTypes
<1>5. Files'
  BY <1>1, FilesSame, RecoverTypes DEF OpenEnter, OpenBusy
<1>. QED BY <1>3, <1>4, <1>5, Typed DEF OpenEnter, OpenBusy, NoFault

LEMMA WriteTypes ==
  ASSUME TInv, NEW c \in Client, Write(c) \/ WriteFails(c)
  PROVE  TInv'
<1>. USE DEF TInv, TypeOK
<1>1. /\ request[c] \in Snapshot /\ request[c] # <<>> /\ pc[c] \in Advancing
      /\ pc[c] \in File
  BY RequestIs, SnapshotIs, Outside DEF Write, WriteFails, Writing, File
<1>2. \E step \in Advancing : Goto(c, step)
  BY Outside DEF Write, WriteFails, OpenDone, Writing, Following
<1>3. Controls'
  <2>1. PICK step \in Advancing : Goto(c, step)
    BY <1>2
  <2>2. request' = request /\ step \in Steplike
    BY Outside DEF Write, WriteFails
  <2>. QED BY <1>1, <2>1, <2>2, Going
<1>4. work' \in [Client -> Receipt]
  <2>1. \/ UNCHANGED work
        \/ \E o \in Outcome : work' = [work EXCEPT ![c].open = o]
    BY DEF Write, WriteFails, OpenDone, Outcome
  <2>. HIDE DEF TInv, TypeOK
  <2>. QED BY <2>1, WorkTypes
<1>5. Files'
  BY <1>1, PublishTypes, InterruptedTypes DEF Write, WriteFails
<1>. QED BY <1>3, <1>4, <1>5, Typed DEF Write, WriteFails, NoFault

LEMMA HiveTypes ==
  ASSUME TInv, NEW c \in Client, Hive(c) \/ HiveFails(c)
  PROVE  TInv'
<1>. USE DEF TInv, TypeOK
<1>1. /\ request[c] \in Snapshot /\ request[c] # <<>> /\ pc[c] \in Advancing
      /\ request[c] \in History
  BY RequestIs, SnapshotIs, Outside DEF Hive, HiveFails
<1>2. Goto(c, "record") \/ Goto(c, "fail")
  BY DEF Hive, HiveFails
<1>3. Controls'
  BY <1>1, <1>2, Going, Outside DEF Hive, HiveFails
<1>4. work' \in [Client -> Receipt]
  <2>1. \E o \in Outcome : work' = [work EXCEPT ![c].hive = o]
    BY DEF Hive, HiveFails, Outcome
  <2>. HIDE DEF TInv, TypeOK
  <2>. QED BY <2>1, WorkTypes
<1>5. Files' /\ hive' \in History
  BY <1>1, FilesSame DEF Hive, HiveFails, HiveAdvanced
<1>. QED BY <1>3, <1>4, <1>5, Typed DEF Hive, HiveFails, NoFault

LEMMA RecordTypes ==
  ASSUME TInv, NEW c \in Client,
         Note(c) \/ Record(c) \/ RecordFailure(c)
  PROVE  TInv'
<1>. USE DEF TInv, TypeOK
<1>1. /\ request[c] \in Snapshot /\ request[c] # <<>> /\ pc[c] \in Advancing
      /\ pc[c] # "idle"
  BY RequestIs, SnapshotIs, Outside DEF Note, Record, RecordFailure
<1>2. \/ Goto(c, "hive") \/ Goto(c, "reread") \/ Answer(c, "committed")
      \/ Answer(c, "blocked")
  BY DEF Note, Record, RecordFailure
<1>3. Controls'
  BY <1>1, <1>2, Going, Answering, Outside
  DEF Note, Record, RecordFailure, client, Answers
<1>4. Files'
  BY <1>1, PutTypes DEF Note, Record, RecordFailure
<1>. QED BY <1>1, <1>3, <1>4, Typed DEF Note, Record, RecordFailure, client, NoFault

LEMMA LeavingTypes ==
  ASSUME TInv, NEW c \in Client, Reread(c) \/ Crash(c)
  PROVE  TInv'
<1>. USE DEF TInv, TypeOK
<1>1. request[c] \in Snapshot
  BY RequestIs DEF Reread, Crash
<1>2. \E what \in Answers : Answer(c, what)
  BY DEF Reread, Crash, Answers
<1>3. Controls'
  BY <1>2, Answering DEF Reread, Crash, client
<1>4. Files'
  <2>1. CASE Reread(c)
    BY <1>1, <2>1 DEF Reread, Files
  <2>2. CASE Crash(c)
    BY <1>1, <2>2, FilesSame, InterruptedTypes DEF Crash, Writing, File
  <2>. QED BY <2>1, <2>2
<1>. QED BY <1>3, <1>4, Typed DEF Reread, Crash, client, NoFault

LEMMA ArchiveTypes ==
  ASSUME TInv, ArchiveCheck \/ ArchiveMove \/ ArchiveFails
  PROVE  TInv'
<1>. USE DEF TInv, TypeOK
<1>1. Controls'
  BY DEF Controls, Steplike, Answers, Requested, ArchiveCheck, ArchiveMove,
         ArchiveFails, client
<1>2. Files'
  BY DEF Files, ArchiveCheck, ArchiveMove, ArchiveFails, folder
<1>. QED BY <1>1, <1>2, Typed DEF ArchiveCheck, ArchiveMove, ArchiveFails, client

LEMMA TypeInit == Init => TInv
BY HybridProgressAssumption, Outside
DEF Init, TInv, TypeOK, Requested, History, Receipt, Outcome, Pending, Steplike

LEMMA TypeStep ==
  ASSUME TInv, [Next]_vars
  PROVE  TInv'
<1>1. CASE UNCHANGED vars
  BY <1>1 DEF vars, folder, client, TInv, TypeOK, Requested
<1>2. CASE Next
  BY <1>2, Steps, PlanTypes, ReadingTypes, LockTypes, OpenTypes, WriteTypes,
     HiveTypes, RecordTypes, LeavingTypes, ArchiveTypes
<1>. QED BY <1>1, <1>2

(* Every variable has its type, and one process at a time is inside        *)
(* Hybrid.advance, however it is entered, left, timed out of or killed in. *)
THEOREM TypeCorrect == FairSpec => []TypeOK
<1>1. TInv => TypeOK
  BY DEF TInv
<1>. QED BY <1>1, TypeInit, TypeStep, PTL DEF FairSpec, Spec

-----------------------------------------------------------------------------
(* The record and its copy.                                                *)
Published == receipts \union {e.of : e \in staged}

(* What is published is proven, and one snapshot at most is beyond the     *)
(* head.                                                                   *)
Proven == \A s \in Snapshot : Prefix(s, head) => s \in evidence /\ s \in receipts
OneBeyond ==
  \A r \in Published : ~Prefix(r, head) =>
    Base(r) = head /\ \A q \in Published : Prefix(q, head) \/ q = r

(* What a client inside Hybrid.advance may count on.                       *)
Works(c) ==
  /\ pc[c] \in Writing =>
       /\ Base(request[c]) = head /\ root = "active" /\ archiver = "idle"
       /\ \A r \in Published : Prefix(r, head) \/ r = request[c]
  /\ pc[c] \in {"receipt", "head"} => request[c] \in evidence
  /\ pc[c] = "head" => request[c] \in receipts
  /\ pc[c] \in Advancing =>
       /\ work[c].open = "committed" => Prefix(request[c], head)
       /\ work[c].hive = "committed" => Prefix(request[c], hive)
  /\ pc[c] \in {"note", "hive", "record"} => Prefix(request[c], head)
  /\ pc[c] = "record" => Prefix(request[c], hive)
Working == \A c \in Client : Works(c)

Follows == Prefix(hive, head)
Archived == root # "active" \/ archiver = "moving" => AllDone(head) /\ hive = head

RInv == TInv /\ Proven /\ OneBeyond /\ Working /\ Follows /\ ReceiptsAreTrue /\ Archived

LEMMA PublishedIs ==
  ASSUME TInv
  PROVE  Published \subseteq Snapshot /\ head \in History /\ hive \in History
BY DEF TInv, TypeOK, Published

(* Nothing that the record is made of has changed.                         *)
LEMMA SameHistory ==
  ASSUME RInv, UNCHANGED <<evidence, receipts, head, staged, hive>>
  PROVE  Proven' /\ OneBeyond' /\ Follows'
BY DEF RInv, Proven, OneBeyond, Published, Follows

LEMMA SameReceipts ==
  ASSUME RInv, UNCHANGED <<head, hive, hybrid>>
  PROVE  ReceiptsAreTrue'
BY DEF RInv, ReceiptsAreTrue

(* The others are outside while a client is inside.                        *)
LEMMA AloneInside ==
  ASSUME TInv, NEW c \in Client, pc[c] \in Advancing,
         \A d \in Client : d # c => pc'[d] = pc[d],
         Works(c)'
  PROVE  Working'
<1>1. ASSUME NEW d \in Client, d # c PROVE pc'[d] \notin Advancing
  BY <1>1 DEF TInv, TypeOK
<1>2. ASSUME NEW d \in Client, d # c PROVE Works(d)'
  BY <1>1, <1>2 DEF Works, Advancing, Writing
<1>. QED BY <1>2 DEF Working

(* What a client inside may count on after a step.                         *)
LEMMA WorksNext ==
  ASSUME NEW c, NEW s, request'[c] = s,
         pc'[c] \in Writing =>
           /\ Base(s) = head' /\ root' = "active" /\ archiver' = "idle"
           /\ \A r \in Published' : Prefix(r, head') \/ r = s,
         pc'[c] \in {"receipt", "head"} => s \in evidence',
         pc'[c] = "head" => s \in receipts',
         work'[c].open = "committed" => Prefix(s, head'),
         work'[c].hive = "committed" => Prefix(s, hive'),
         pc'[c] \in {"note", "hive", "record"} => Prefix(s, head'),
         pc'[c] = "record" => Prefix(s, hive')
  PROVE  Works(c)'
<1>1. Prefix(request[c], head)' = Prefix(s, head')
  BY DEF Prefix
<1>2. Prefix(request[c], hive)' = Prefix(s, hive')
  BY DEF Prefix
<1>3. Base(request[c])' = Base(s)
  BY DEF Base
<1>. QED BY <1>1, <1>2, <1>3 DEF Works, Prefix

(* A client outside, or one that leaves, counts on nothing.                *)
LEMMA OutsideWorks ==
  ASSUME NEW c, pc[c] \notin Advancing
  PROVE  Works(c)
BY DEF Works, Advancing, Writing

(* The steps outside of Hybrid.advance, and those that wait for a lock.    *)
LEMMA OutsideStep ==
  ASSUME RInv, NEW c \in Client,
         \/ \E i \in Item : Plan(c, i)
         \/ Advance(c) \/ Checkpoint(c) \/ ReadHive(c) \/ LockBusy(c)
  PROVE  Proven' /\ OneBeyond' /\ Working' /\ Follows' /\ ReceiptsAreTrue' /\ Archived'
<1>. USE DEF RInv
<1>1. UNCHANGED <<folder, hive, archiver, work>> /\ pc[c] \notin Advancing
  BY Outside DEF Plan, Advance, Checkpoint, ReadHive, LockBusy, client
<1>2. Proven' /\ OneBeyond' /\ Follows' /\ ReceiptsAreTrue'
  BY <1>1, SameHistory, SameReceipts DEF folder
<1>3. pc'[c] \notin Advancing
  BY Outside DEF Plan, Advance, Checkpoint, ReadHive, LockBusy, ToAdvance, Goto,
                 Answer, TInv, TypeOK
<1>4. ASSUME NEW d \in Client, d # c
      PROVE  pc'[d] = pc[d] /\ request'[d] = request[d] /\ work'[d] = work[d]
  <2>1. request'[d] = request[d] /\ work'[d] = work[d]
    BY <1>4 DEF Plan, Advance, Checkpoint, ReadHive, LockBusy, client, TInv, TypeOK
  <2>2. pc'[d] = pc[d]
    BY <1>4 DEF Plan, Advance, Checkpoint, ReadHive, LockBusy, ToAdvance, Goto,
                Answer, TInv, TypeOK
  <2>. QED BY <2>1, <2>2
<1>5. Working'
  <2>1. ASSUME NEW d \in Client, d # c PROVE Works(d)'
    BY <1>1, <1>4, <2>1 DEF Works, Working, folder, Published
  <2>2. Works(c)'
    BY <1>3, OutsideWorks DEF Works, Advancing, Writing
  <2>. QED BY <2>1, <2>2 DEF Working
<1>6. Archived'
  BY <1>1 DEF Archived, folder, AllDone, Holds
<1>. QED BY <1>2, <1>5, <1>6

LEMMA LockStep ==
  ASSUME RInv, NEW c \in Client, Lock(c)
  PROVE  Proven' /\ OneBeyond' /\ Working' /\ Follows' /\ ReceiptsAreTrue' /\ Archived'
<1>. USE DEF RInv
<1>1. UNCHANGED <<folder, hive, archiver, request>> /\ pc[c] = "lock"
  BY DEF Lock
<1>2. Proven' /\ OneBeyond' /\ Follows' /\ ReceiptsAreTrue'
  BY <1>1, SameHistory, SameReceipts DEF folder
<1>3. Archived'
  BY <1>1 DEF Archived, folder, AllDone, Holds
<1>4. request[c] \in Snapshot
  BY <1>1, RequestIs
<1>5. CASE Complete(hybrid[request[c]])
  <2>1. Answer(c, "committed") /\ UNCHANGED <<work, fresh>>
    BY <1>5 DEF Lock
  <2>2. ASSUME NEW d \in Client, d # c PROVE Works(d)'
    BY <1>1, <2>1, <2>2 DEF Works, Working, Answer, folder, Published, TInv, TypeOK
  <2>3. Works(c)'
    BY <2>1, OutsideWorks, Outside
    DEF Answer, TInv, TypeOK, Works, Advancing, Writing
  <2>. QED BY <1>2, <1>3, <2>2, <2>3 DEF Working
<1>6. CASE ~Complete(hybrid[request[c]])
  <2>. DEFINE r == hybrid[request[c]]
  <2>1. /\ HybridFree /\ Goto(c, "open")
        /\ work' = [work EXCEPT ![c] = IF r = None THEN Pending ELSE r]
    BY <1>6 DEF Lock
  <2>2. pc'[c] = "open" /\ \A d \in Client : d # c => pc'[d] \notin Advancing
    BY <2>1 DEF Goto, TInv, TypeOK, HybridFree
  <2>3. /\ work'[c].open = "committed" => Prefix(request[c], head)
        /\ work'[c].hive = "committed" => Prefix(request[c], hive)
    <3>1. work'[c] = IF r = None THEN Pending ELSE r
      BY <2>1 DEF TInv, TypeOK
    <3>2. CASE r = None
      BY <3>1, <3>2 DEF Pending
    <3>3. CASE r # None
      BY <3>1, <3>3, <1>4 DEF ReceiptsAreTrue
    <3>. QED BY <3>2, <3>3
  <2>4. Works(c)'
    BY <1>1, <2>2, <2>3 DEF Works, folder, Writing, Prefix
  <2>5. ASSUME NEW d \in Client, d # c PROVE Works(d)'
    BY <2>2, <2>5 DEF Works, Advancing, Writing
  <2>. QED BY <1>2, <1>3, <2>4, <2>5 DEF Working
<1>. QED BY <1>5, <1>6

(* A receipt is put where it is, with what the client knows.               *)
LEMMA PutTrue ==
  ASSUME RInv, NEW c \in Client, pc[c] \in Advancing, PutReceipt(c), hive' = hive
  PROVE  Proven' /\ OneBeyond' /\ Follows' /\ ReceiptsAreTrue'
         /\ (archiver' = archiver => Archived')
<1>. USE DEF RInv
<1>1. UNCHANGED <<evidence, receipts, head, staged, hive>>
      /\ hybrid' = [hybrid EXCEPT ![request[c]] = work[c]]
      /\ root' = IF root = "gone" THEN "stray" ELSE root
  BY DEF PutReceipt
<1>2. Proven' /\ OneBeyond' /\ Follows'
  BY <1>1, SameHistory
<1>3. ReceiptsAreTrue'
  <2>1. /\ work[c].open = "committed" => Prefix(request[c], head)
        /\ work[c].hive = "committed" => Prefix(request[c], hive)
    BY DEF Working, Works
  <2>. QED BY <1>1, <2>1 DEF ReceiptsAreTrue, TInv, TypeOK
<1>4. archiver' = archiver => Archived'
  BY <1>1 DEF Archived, AllDone, Holds
<1>. QED BY <1>2, <1>3, <1>4

LEMMA RecordStep ==
  ASSUME RInv, NEW c \in Client, Note(c) \/ Record(c) \/ RecordFailure(c)
  PROVE  Proven' /\ OneBeyond' /\ Working' /\ Follows' /\ ReceiptsAreTrue' /\ Archived'
<1>. USE DEF RInv
<1>1. /\ pc[c] \in Advancing /\ PutReceipt(c)
      /\ UNCHANGED <<hive, archiver, request, work>>
  BY Outside DEF Note, Record, RecordFailure, client
<1>2. /\ pc'[c] \in {"hive", "reread", "idle"}
      /\ pc'[c] = "hive" => pc[c] = "note"
      /\ \A d \in Client : d # c => pc'[d] = pc[d]
  BY DEF Note, Record, RecordFailure, Goto, Answer, TInv, TypeOK
<1>3. Works(c)'
  BY <1>1, <1>2 DEF Working, Works, PutReceipt, Writing, Advancing, Prefix
<1>4. Working'
  BY <1>1, <1>2, <1>3, AloneInside
<1>. QED BY <1>1, <1>4, PutTrue

LEMMA RereadStep ==
  ASSUME RInv, NEW c \in Client, Reread(c)
  PROVE  Proven' /\ OneBeyond' /\ Working' /\ Follows' /\ ReceiptsAreTrue' /\ Archived'
<1>. USE DEF RInv
<1>1. /\ pc[c] \in Advancing
      /\ UNCHANGED <<root, evidence, receipts, head, staged, hive, archiver, request, work>>
      /\ hybrid' = hybrid \/ hybrid' = [hybrid EXCEPT ![request[c]] = None]
  BY Outside DEF Reread, client
<1>2. Proven' /\ OneBeyond' /\ Follows'
  BY <1>1, SameHistory
<1>3. ReceiptsAreTrue'
  BY <1>1 DEF ReceiptsAreTrue, TInv, TypeOK
<1>4. pc'[c] = "idle" /\ \A d \in Client : d # c => pc'[d] = pc[d]
  BY DEF Reread, Answer, TInv, TypeOK
<1>5. Working'
  BY <1>1, <1>4, AloneInside, Outside DEF Works, Advancing, Writing
<1>6. Archived'
  BY <1>1 DEF Archived, AllDone, Holds
<1>. QED BY <1>2, <1>3, <1>5, <1>6

(* What the same request left staged is published, and nothing else.       *)
LEMMA RecoverKeeps ==
  ASSUME RInv, NEW s \in Snapshot, staged \subseteq Mine(s), Recover(s), hive' = hive
  PROVE  /\ Proven' /\ OneBeyond' /\ Follows' /\ ReceiptsAreTrue'
         /\ Published' \subseteq Published
<1>. USE DEF RInv
<1>1. /\ evidence \subseteq evidence' /\ receipts' = Found(s)
      /\ staged' \subseteq staged /\ UNCHANGED <<root, head, hybrid>>
  BY DEF Recover
<1>2. Published' \subseteq Published
  <2>1. ASSUME Whole("receipt", s) PROVE s \in Published
    BY <2>1 DEF Whole, Stage, Published
  <2>. QED BY <1>1, <2>1 DEF Found, Published
<1>3. Proven'
  BY <1>1 DEF Proven, Found
<1>4. OneBeyond'
  BY <1>1, <1>2 DEF OneBeyond
<1>5. Follows' /\ ReceiptsAreTrue'
  BY <1>1, SameReceipts DEF Follows
<1>. QED BY <1>2, <1>3, <1>4, <1>5

(* A request that goes on to write is the only one beyond the head.        *)
LEMMA OnlyMine ==
  ASSUME RInv, NEW s \in Snapshot, ~OpenRefuses(s), Matches(s),
         NEW r \in Published, ~Prefix(r, head)
  PROVE  r = s
<1>. USE DEF RInv
<1>1. CASE r \in receipts
  <2>1. CASE Lineage(receipts)
    BY <1>1, <2>1 DEF Lineage, OnPath
  <2>2. CASE s \in Found(s)
    <3>1. s \in Published
      BY <2>2 DEF Found, Whole, Stage, Published
    <3>2. ~Prefix(s, head)
      BY NextIsBeyond DEF Matches
    <3>. QED BY <3>1, <3>2 DEF OneBeyond
  <2>. QED BY <2>1, <2>2 DEF OpenRefuses
<1>2. CASE r \notin receipts
  <2>1. PICK e \in staged : e.of = r
    BY <1>2 DEF Published
  <2>2. e \in Mine(s)
    BY DEF OpenRefuses
  <2>. QED BY <2>1, <2>2 DEF Mine, Stage
<1>. QED BY <1>1, <1>2

LEMMA OpenStep ==
  ASSUME RInv, NEW c \in Client, OpenEnter(c) \/ OpenBusy(c)
  PROVE  Proven' /\ OneBeyond' /\ Working' /\ Follows' /\ ReceiptsAreTrue' /\ Archived'
<1>. USE DEF RInv
<1>. DEFINE s == request[c]
<1>1. /\ pc[c] = "open" /\ pc[c] \in Advancing /\ s \in Snapshot
      /\ UNCHANGED <<hive, archiver, request, root, head>>
  BY Outside, RequestIs DEF OpenEnter, OpenBusy, folder, Recover
<1>2. Archived'
  BY <1>1 DEF Archived, AllDone, Holds
<1>3. /\ work[c].open = "committed" => Prefix(s, head)
      /\ work[c].hive = "committed" => Prefix(s, hive)
  BY <1>1 DEF Working, Works
<1>4. CASE /\ UNCHANGED folder /\ Goto(c, "fail")
           /\ work' = [work EXCEPT ![c].open = "failed"]
  <2>1. Proven' /\ OneBeyond' /\ Follows' /\ ReceiptsAreTrue'
    BY <1>1, <1>4, SameHistory, SameReceipts DEF folder
  <2>2. pc'[c] = "fail" /\ \A d \in Client : d # c => pc'[d] = pc[d]
    BY <1>4 DEF Goto, TInv, TypeOK
  <2>3. work'[c].open = "failed" /\ work'[c].hive = work[c].hive
    BY <1>4 DEF TInv, TypeOK, Receipt
  <2>4. Works(c)'
    <3>1. pc'[c] \notin Writing
      BY <2>2 DEF Writing
    <3>. QED BY <1>1, <1>3, <2>2, <2>3, <3>1, WorksNext
  <2>. QED BY <1>1, <1>2, <2>1, <2>2, <2>4, AloneInside
<1>5. CASE /\ OpenFree /\ ~OpenRefuses(s) /\ Recover(s)
           /\ \/ OpenReplays(s) /\ OpenDone(c)
              \/ Matches(s) /\ Goto(c, "batch") /\ UNCHANGED work
              \/ /\ work' = [work EXCEPT ![c].open = "failed"]
                 /\ Goto(c, "conflict")
  <2>1. /\ Proven' /\ OneBeyond' /\ Follows' /\ ReceiptsAreTrue'
        /\ Published' \subseteq Published
    BY <1>1, <1>5, RecoverKeeps DEF OpenRefuses
  <2>2. \A d \in Client : d # c => pc'[d] = pc[d]
    BY <1>5 DEF Goto, OpenDone, TInv, TypeOK
  <2>3. ASSUME OpenReplays(s), OpenDone(c)
        PROVE  Works(c)'
    <3>1. Prefix(s, head)
      BY <2>3 DEF OpenReplays, OnPath
    <3>2. pc'[c] \in {"hive", "note"} /\ work'[c].hive = work[c].hive
      BY <2>3 DEF OpenDone, Goto, TInv, TypeOK, Receipt
    <3>3. pc'[c] \notin Writing /\ pc'[c] \notin {"receipt", "head", "record"}
      BY <3>2 DEF Writing
    <3>. QED BY <1>1, <1>3, <3>1, <3>2, <3>3, WorksNext
  <2>4. ASSUME Matches(s), Goto(c, "batch"), UNCHANGED work
        PROVE  Works(c)'
    <3>1. pc'[c] = "batch"
      BY <2>4 DEF Goto, TInv, TypeOK
    <3>2. Base(s) = head /\ root = "active" /\ archiver = "idle"
      BY <1>5, <2>4 DEF Matches, OpenRefuses, OpenFree
    <3>3. \A r \in Published' : Prefix(r, head) \/ r = s
      BY <1>1, <1>5, <2>1, <2>4, OnlyMine
    <3>. QED BY <1>1, <1>3, <2>4, <3>1, <3>2, <3>3, WorksNext
  <2>5. ASSUME work' = [work EXCEPT ![c].open = "failed"], Goto(c, "conflict")
        PROVE  Works(c)'
    <3>1. pc'[c] = "conflict" /\ work'[c].open = "failed" /\ work'[c].hive = work[c].hive
      BY <2>5 DEF Goto, TInv, TypeOK, Receipt
    <3>2. pc'[c] \notin Writing
      BY <3>1 DEF Writing
    <3>. QED BY <1>1, <1>3, <3>1, <3>2, WorksNext
  <2>. QED BY <1>1, <1>2, <1>5, <2>1, <2>2, <2>3, <2>4, <2>5, AloneInside
<1>6. \/ UNCHANGED folder /\ Goto(c, "fail") /\ work' = [work EXCEPT ![c].open = "failed"]
      \/ /\ OpenFree /\ ~OpenRefuses(s) /\ Recover(s)
         /\ \/ OpenReplays(s) /\ OpenDone(c)
            \/ Matches(s) /\ Goto(c, "batch") /\ UNCHANGED work
            \/ work' = [work EXCEPT ![c].open = "failed"] /\ Goto(c, "conflict")
  BY DEF OpenEnter, OpenBusy
<1>. QED BY <1>4, <1>5, <1>6

-----------------------------------------------------------------------------
(* A file is renamed into place.  The last one makes the head what the     *)
(* other two have proven.                                                  *)
LEMMA PublishKeeps ==
  ASSUME RInv, NEW c \in Client, NEW s, s = request[c], pc[c] \in Writing,
         Publish(pc[c], s), UNCHANGED <<hive, archiver>>
  PROVE  /\ Proven' /\ OneBeyond' /\ Follows' /\ ReceiptsAreTrue' /\ Archived'
         /\ \A t \in History : Prefix(t, head) => Prefix(t, head')
         /\ \A r \in Published' : Prefix(r, head') \/ r = s
<1>. USE DEF RInv
<1>1. s \in Snapshot /\ s \in History
  BY RequestIs, SnapshotIs, Outside
<1>2. /\ Base(s) = head /\ root = "active" /\ archiver = "idle"
      /\ \A r \in Published : Prefix(r, head) \/ r = s
      /\ pc[c] = "head" => s \in evidence /\ s \in receipts
  BY DEF Working, Works
<1>3. /\ evidence \subseteq evidence' /\ receipts \subseteq receipts'
      /\ head' = IF pc[c] = "head" THEN s ELSE head
      /\ UNCHANGED <<root, hybrid>>
  BY DEF Publish
<1>4. Published' \subseteq Published \union {s} /\ Published \subseteq Snapshot
  BY PublishedIs DEF Publish, Published
<1>5. \A t \in History : Prefix(t, head) => Prefix(t, head')
  BY <1>1, <1>2, <1>3, PrefixOfMore
<1>6. \A r \in Published' : Prefix(r, head') \/ r = s
  BY <1>2, <1>4, <1>5, SnapshotIs
<1>7. Proven'
  <2>1. CASE pc[c] = "head"
    BY <1>1, <1>2, <1>3, <2>1, PrefixOfNext, SnapshotIs DEF Proven
  <2>2. CASE pc[c] # "head"
    BY <1>3, <2>2 DEF Proven
  <2>. QED BY <2>1, <2>2
<1>8. OneBeyond'
  <2>1. CASE pc[c] = "head"
    BY <1>1, <1>3, <1>6, <2>1, PrefixSelf DEF OneBeyond
  <2>2. CASE pc[c] # "head"
    BY <1>2, <1>3, <1>6, <2>2 DEF OneBeyond
  <2>. QED BY <2>1, <2>2
<1>9. Follows'
  BY <1>5, PublishedIs DEF Follows
<1>10. ReceiptsAreTrue'
  BY <1>3, <1>5, SnapshotIs DEF ReceiptsAreTrue
<1>11. Archived'
  BY <1>2, <1>3 DEF Archived
<1>. QED BY <1>5, <1>6, <1>7, <1>8, <1>9, <1>10, <1>11

LEMMA InterruptedKeeps ==
  ASSUME RInv, NEW c \in Client, NEW s, s = request[c], pc[c] \in Writing,
         Interrupted(pc[c], s), UNCHANGED <<hive, archiver>>
  PROVE  /\ Proven' /\ OneBeyond' /\ Follows' /\ ReceiptsAreTrue' /\ Archived'
         /\ head' = head
<1>. USE DEF RInv
<1>1. /\ Base(s) = head /\ root = "active" /\ archiver = "idle"
      /\ \A r \in Published : Prefix(r, head) \/ r = s
  BY DEF Working, Works
<1>2. UNCHANGED <<root, evidence, receipts, head, hybrid>>
  BY DEF Interrupted
<1>3. Published' \subseteq Published \union {s}
  BY <1>2 DEF Interrupted, Published, Stage
<1>4. Proven' /\ Follows' /\ ReceiptsAreTrue' /\ Archived'
  BY <1>1, <1>2 DEF Proven, Follows, ReceiptsAreTrue, Archived
<1>5. OneBeyond'
  BY <1>1, <1>2, <1>3 DEF OneBeyond
<1>. QED BY <1>2, <1>4, <1>5

LEMMA WriteStep ==
  ASSUME RInv, NEW c \in Client, Write(c) \/ WriteFails(c)
  PROVE  Proven' /\ OneBeyond' /\ Working' /\ Follows' /\ ReceiptsAreTrue' /\ Archived'
<1>. USE DEF RInv
<1>. DEFINE s == request[c]
<1>1. /\ pc[c] \in Writing /\ pc[c] \in Advancing /\ s \in Snapshot /\ s \in History
      /\ UNCHANGED <<hive, archiver, request>>
  BY Outside, RequestIs, SnapshotIs DEF Write, WriteFails
<1>2. /\ work[c].open = "committed" => Prefix(s, head)
      /\ work[c].hive = "committed" => Prefix(s, hive)
      /\ Base(s) = head /\ root = "active" /\ archiver = "idle"
      /\ pc[c] = "receipt" => s \in evidence
  BY <1>1 DEF Working, Works
<1>3. \A d \in Client : d # c => pc'[d] = pc[d]
  BY DEF Write, WriteFails, OpenDone, Goto, TInv, TypeOK
<1>4. CASE WriteFails(c)
  <2>1. pc'[c] = "fail" /\ work'[c].open = "failed" /\ work'[c].hive = work[c].hive
    BY <1>4 DEF WriteFails, Goto, TInv, TypeOK, Receipt
  <2>2. Works(c)'
    <3>1. pc'[c] \notin Writing
      BY <2>1 DEF Writing
    <3>. QED BY <1>1, <1>2, <2>1, <3>1, WorksNext
  <2>3. Proven' /\ OneBeyond' /\ Follows' /\ ReceiptsAreTrue' /\ Archived'
    BY <1>1, <1>4, PublishKeeps, InterruptedKeeps DEF WriteFails
  <2>. QED BY <1>1, <1>3, <2>2, <2>3, AloneInside
<1>5. CASE Write(c)
  <2>1. Publish(pc[c], s)
    BY <1>5 DEF Write
  <2>2. /\ Proven' /\ OneBeyond' /\ Follows' /\ ReceiptsAreTrue' /\ Archived'
        /\ \A r \in Published' : Prefix(r, head') \/ r = s
        /\ Prefix(s, head) => Prefix(s, head')
    BY <1>1, <2>1, PublishKeeps
  <2>3. ASSUME pc[c] = "head" PROVE Works(c)'
    <3>1. OpenDone(c) /\ head' = s
      BY <1>5, <2>1, <2>3 DEF Write, Following, Publish
    <3>2. pc'[c] \in {"hive", "note"} /\ work'[c].hive = work[c].hive
      BY <3>1 DEF OpenDone, Goto, TInv, TypeOK, Receipt
    <3>3. Prefix(s, head')
      BY <1>1, <3>1, PrefixSelf
    <3>4. pc'[c] \notin Writing /\ pc'[c] \notin {"receipt", "head", "record"}
      BY <3>2 DEF Writing
    <3>. QED BY <1>1, <1>2, <3>2, <3>3, <3>4, WorksNext
  <2>4. ASSUME pc[c] # "head" PROVE Works(c)'
    <3>1. /\ pc'[c] = Following(pc[c]) /\ work' = work /\ head' = head /\ root' = root
          /\ pc[c] = "batch" => s \in evidence'
          /\ pc[c] = "receipt" => s \in evidence' /\ s \in receipts'
      BY <1>1, <1>2, <1>5, <2>1, <2>4
      DEF Write, Following, Publish, Goto, TInv, TypeOK, Writing
    <3>2. \/ pc[c] = "batch" /\ pc'[c] = "receipt"
          \/ pc[c] = "receipt" /\ pc'[c] = "head"
      <4>1. pc[c] \in {"batch", "receipt"}
        BY <1>1, <2>4 DEF Writing
      <4>. QED BY <3>1, <4>1 DEF Following
    <3>3. pc'[c] \notin {"note", "hive", "record"}
      BY <3>2
    <3>4. /\ work'[c].open = "committed" => Prefix(s, head')
          /\ work'[c].hive = "committed" => Prefix(s, hive')
      BY <1>1, <1>2, <2>2, <3>1
    <3>5. Base(s) = head' /\ root' = "active" /\ archiver' = "idle"
      BY <1>1, <1>2, <3>1
    <3>6. /\ pc'[c] \in {"receipt", "head"} => s \in evidence'
          /\ pc'[c] = "head" => s \in receipts'
      BY <3>1, <3>2
    <3>. QED BY <1>1, <2>2, <3>3, <3>4, <3>5, <3>6, WorksNext
  <2>. QED BY <1>1, <1>3, <2>2, <2>3, <2>4, AloneInside
<1>. QED BY <1>4, <1>5

-----------------------------------------------------------------------------
(* The Hive side takes a request that the head extends: it follows.        *)
LEMMA HiveStep ==
  ASSUME RInv, NEW c \in Client, Hive(c) \/ HiveFails(c)
  PROVE  Proven' /\ OneBeyond' /\ Working' /\ Follows' /\ ReceiptsAreTrue' /\ Archived'
<1>. USE DEF RInv
<1>. DEFINE s == request[c]
<1>1. /\ pc[c] = "hive" /\ pc[c] \in Advancing /\ s \in Snapshot /\ s \in History
      /\ UNCHANGED <<root, evidence, receipts, head, staged, hybrid, archiver, request>>
      /\ hive' \in {hive, HiveAdvanced(s)}
  BY Outside, RequestIs, SnapshotIs DEF Hive, HiveFails, folder
<1>2. /\ Prefix(s, head)
      /\ work[c].open = "committed" => Prefix(s, head)
      /\ work[c].hive = "committed" => Prefix(s, hive)
  BY <1>1 DEF Working, Works
<1>3. hive' = hive \/ (hive' = s /\ hive = Base(s))
  BY <1>1 DEF HiveAdvanced
<1>4. Proven' /\ OneBeyond'
  BY <1>1 DEF Proven, OneBeyond, Published
<1>5. Follows'
  BY <1>1, <1>2, <1>3 DEF Follows
<1>6. \A t \in History : Prefix(t, hive) => Prefix(t, hive')
  BY <1>1, <1>3, PrefixOfMore
<1>7. ReceiptsAreTrue'
  BY <1>1, <1>6, SnapshotIs DEF ReceiptsAreTrue
<1>8. Archived'
  <2>1. ASSUME hive' # hive PROVE hive # head
    BY <1>1, <1>2, <1>3, <2>1, NextIsBeyond
  <2>. QED BY <1>1, <2>1 DEF Archived, AllDone, Holds
<1>9. /\ \A d \in Client : d # c => pc'[d] = pc[d]
      /\ work'[c].open = work[c].open
      /\ \/ pc'[c] = "fail" /\ work'[c].hive = "failed"
         \/ pc'[c] = "record" /\ work'[c].hive = "committed" /\ Prefix(s, hive')
  BY <1>1 DEF Hive, HiveFails, Goto, HoldsNow, TInv, TypeOK, Receipt
<1>10. Works(c)'
  <2>1. /\ pc'[c] \notin Writing
        /\ pc'[c] \notin {"receipt", "head"} /\ pc'[c] \notin {"note", "hive"}
    BY <1>9 DEF Writing
  <2>2. work'[c].open = "committed" => Prefix(s, head')
    BY <1>1, <1>2, <1>9
  <2>3. work'[c].hive = "committed" => Prefix(s, hive')
    BY <1>9
  <2>4. /\ pc'[c] = "record" => Prefix(s, hive')
        /\ Prefix(s, head') /\ request'[c] = s
    BY <1>1, <1>2, <1>9
  <2>. QED BY <2>1, <2>2, <2>3, <2>4, WorksNext
<1>. QED BY <1>1, <1>4, <1>5, <1>7, <1>8, <1>9, <1>10, AloneInside

(* A process that dies leaves a stage at most, and frees its locks.        *)
LEMMA CrashStep ==
  ASSUME RInv, NEW c \in Client, Crash(c)
  PROVE  Proven' /\ OneBeyond' /\ Working' /\ Follows' /\ ReceiptsAreTrue' /\ Archived'
<1>. USE DEF RInv
<1>1. UNCHANGED <<hive, archiver, request, work>> /\ Answer(c, "lost")
  BY DEF Crash, client
<1>2. pc'[c] = "idle" /\ \A d \in Client : d # c => pc'[d] = pc[d]
  BY <1>1 DEF Answer, TInv, TypeOK
<1>3. Works(c)'
  BY <1>2, Outside DEF Works, Advancing, Writing
<1>4. CASE pc[c] \in Writing
  <2>1. Interrupted(pc[c], request[c]) /\ pc[c] \in Advancing
    BY <1>4, Outside DEF Crash
  <2>2. Proven' /\ OneBeyond' /\ Follows' /\ ReceiptsAreTrue' /\ Archived'
    BY <1>1, <1>4, <2>1, InterruptedKeeps
  <2>. QED BY <1>2, <1>3, <2>1, <2>2, AloneInside
<1>5. CASE pc[c] \notin Writing
  <2>1. UNCHANGED folder
    BY <1>5 DEF Crash
  <2>2. Proven' /\ OneBeyond' /\ Follows' /\ ReceiptsAreTrue'
    BY <1>1, <2>1, SameHistory, SameReceipts DEF folder
  <2>3. Archived'
    BY <1>1, <2>1 DEF Archived, folder, AllDone, Holds
  <2>4. ASSUME NEW d \in Client, d # c PROVE Works(d)'
    BY <1>1, <1>2, <2>1, <2>4 DEF Works, Working, folder, Published
  <2>. QED BY <1>3, <2>2, <2>3, <2>4 DEF Working
<1>. QED BY <1>4, <1>5

(* The archiver moves a complete change while nobody writes.               *)
LEMMA ArchiveStep ==
  ASSUME RInv, ArchiveCheck \/ ArchiveMove \/ ArchiveFails
  PROVE  Proven' /\ OneBeyond' /\ Working' /\ Follows' /\ ReceiptsAreTrue' /\ Archived'
<1>. USE DEF RInv
<1>1. UNCHANGED <<evidence, receipts, head, staged, hive, pc, request, work>>
  BY DEF ArchiveCheck, ArchiveMove, ArchiveFails, folder, client
<1>2. Proven' /\ OneBeyond' /\ Follows'
  BY <1>1, SameHistory
<1>3. \A c \in Client : pc[c] \notin Writing
  BY DEF ArchiveCheck, ArchiveMove, ArchiveFails, OpenFree, Working, Works
<1>4. ASSUME NEW c \in Client PROVE Works(c)'
  BY <1>1, <1>3, <1>4 DEF Works, Working
<1>5. ReceiptsAreTrue'
  <2>1. UNCHANGED hybrid \/ hybrid' = [s \in Snapshot |-> None]
    BY DEF ArchiveCheck, ArchiveMove, ArchiveFails, folder
  <2>. QED BY <1>1, <2>1 DEF ReceiptsAreTrue
<1>6. Archived'
  <2>1. CASE ArchiveCheck
    BY <1>1, <2>1 DEF ArchiveCheck, SameInHive, Archived, AllDone, Holds
  <2>2. CASE ArchiveMove
    BY <1>1, <2>2 DEF ArchiveMove, Archived, AllDone, Holds
  <2>3. CASE ArchiveFails
    BY <1>1, <2>3 DEF ArchiveFails, Archived, AllDone, Holds, folder
  <2>. QED BY <2>1, <2>2, <2>3
<1>. QED BY <1>2, <1>4, <1>5, <1>6 DEF Working

LEMMA RecordInit == Init => RInv
<1>. SUFFICES ASSUME Init PROVE RInv
  OBVIOUS
<1>1. TInv
  BY TypeInit
<1>2. Follows
  BY DEF Init, Follows, Prefix
<1>3. Proven
  <2>1. ASSUME NEW s \in Snapshot, Prefix(s, head) PROVE FALSE
    BY <2>1, SnapshotIs, HistoryIs DEF Init, Prefix
  <2>. QED BY <2>1 DEF Proven
<1>4. OneBeyond /\ Working /\ ReceiptsAreTrue /\ Archived
  BY Outside DEF Init, OneBeyond, Published, Working, Works, ReceiptsAreTrue,
                 Archived, Advancing, Writing
<1>. QED BY <1>1, <1>2, <1>3, <1>4 DEF RInv

LEMMA RecordInvStep ==
  ASSUME RInv, [Next]_vars
  PROVE  RInv'
<1>1. TInv'
  BY TypeStep DEF RInv
<1>2. CASE UNCHANGED vars
  BY <1>1, <1>2 DEF vars, folder, client, RInv, Proven, OneBeyond, Published,
     Working, Works, Follows, ReceiptsAreTrue, Archived, AllDone, Holds
<1>3. CASE Next
  BY <1>1, <1>3, Steps, OutsideStep, LockStep, OpenStep, WriteStep, HiveStep,
     RecordStep, RereadStep, CrashStep, ArchiveStep DEF RInv
<1>. QED BY <1>2, <1>3

LEMMA RecordInvariant == FairSpec => []RInv
BY RecordInit, RecordInvStep, PTL DEF FairSpec, Spec

(* Wherever a run is interrupted, evidence and receipt precede the head    *)
(* they belong to, and one request at most is published beyond it.         *)
THEOREM OneHistory == FairSpec => []HeadIsProven
<1>1. ASSUME RInv PROVE HeadIsProven
  <2>. USE DEF RInv
  <2>1. /\ head \in History /\ Published \subseteq Snapshot
        /\ Ancestors(head) = {s \in Snapshot : Prefix(s, head)}
    BY <1>1, PublishedIs, AncestorsAre
  <2>2. Ancestors(head) \subseteq evidence \intersect receipts
    BY <1>1, <2>1 DEF Proven
  <2>3. \E s \in History :
          Published \subseteq Ancestors(head) \union {s} /\ (s # <<>> => Base(s) = head)
    <3>1. CASE \A r \in Published : Prefix(r, head)
      <4>1. <<>> \in History
        BY DEF History
      <4>. QED BY <2>1, <3>1, <4>1
    <3>2. CASE \E r \in Published : ~Prefix(r, head)
      <4>1. PICK r \in Published : ~Prefix(r, head)
        BY <3>2
      <4>2. /\ Base(r) = head /\ r \in History
            /\ \A q \in Published : Prefix(q, head) \/ q = r
        BY <1>1, <2>1, <4>1, SnapshotIs DEF OneBeyond
      <4>. QED BY <2>1, <4>2
    <3>. QED BY <3>1, <3>2
  <2>. QED BY <2>2, <2>3 DEF HeadIsProven, Published
<1>. QED BY <1>1, RecordInvariant, PTL

(* A side that a hybrid receipt calls committed has the snapshot.          *)
THEOREM NoFalseReceipt == FairSpec => []ReceiptsAreTrue
<1>1. RInv => ReceiptsAreTrue
  BY DEF RInv
<1>. QED BY <1>1, RecordInvariant, PTL

(* An archived change is complete and the same in both stores.             *)
THEOREM ArchivedComplete == FairSpec => []ArchivedInBoth
<1>1. RInv => ArchivedInBoth
  BY DEF RInv, Archived, ArchivedInBoth
<1>. QED BY <1>1, RecordInvariant, PTL

-----------------------------------------------------------------------------
(* Refinement.  A client writes an entry when it renames the head into     *)
(* place, mirrors one when the Hive side takes it, and acknowledges what   *)
(* it answers as committed; the rest are stutters.                         *)
LEMMA SamePrefix == \A s, t : Promise!Prefix(s, t) <=> Prefix(s, t)
BY DEF Promise!Prefix, Prefix

LEMMA HeadWrites ==
  ASSUME RInv, NEW c \in Client, pc[c] \in Writing,
         Publish(pc[c], request[c]), UNCHANGED <<hive, acked>>
  PROVE  Promise!RecordNext \/ UNCHANGED Promise!record
<1>. DEFINE s == request[c]
<1>1. /\ s \in Snapshot /\ Base(s) = head
      /\ head' = IF pc[c] = "head" THEN s ELSE head
  BY RequestIs, Outside DEF RInv, Working, Works, Publish
<1>2. CASE pc[c] # "head"
  BY <1>1, <1>2 DEF Promise!record
<1>3. CASE pc[c] = "head"
  <2>. DEFINE i == s[Len(s)]
  <2>1. s = Append(Base(s), i) /\ i \in Item /\ ~Holds(Base(s), i)
    BY <1>1, BaseAndItem
  <2>2. Promise!Write(i)
    BY <1>1, <1>3, <2>1 DEF Promise!Write, Promise!Holds, Holds
  <2>. QED BY <2>1, <2>2 DEF Promise!RecordNext
<1>. QED BY <1>2, <1>3

LEMMA HiveMirrors ==
  ASSUME RInv, NEW c \in Client, Hive(c) \/ HiveFails(c)
  PROVE  Promise!RecordNext \/ UNCHANGED Promise!record
<1>. DEFINE s == request[c]
<1>1. /\ s \in Snapshot /\ Prefix(s, head) /\ UNCHANGED <<head, acked>>
      /\ hive' = hive \/ (hive' = s /\ hive = Base(s))
  BY RequestIs, Outside DEF Hive, HiveFails, HiveAdvanced, folder, RInv, Working, Works
<1>2. CASE hive' = hive
  BY <1>1, <1>2 DEF Promise!record
<1>3. CASE hive' = s /\ hive = Base(s)
  <2>1. /\ s \in Seq(Item) /\ Len(s) \in Nat /\ Len(s) >= 1
        /\ Len(Base(s)) = Len(s) - 1 /\ s = Append(Base(s), s[Len(s)])
    BY <1>1, SnapshotIs, HistoryIs, BaseIs, BaseAndItem
  <2>2. Len(s) <= Len(head) /\ s[Len(s)] = head[Len(s)] /\ Len(head) \in Nat
    BY <1>1, <2>1, HistoryIs DEF Prefix, RInv, TInv, TypeOK
  <2>3. Len(hive) + 1 = Len(s)
    BY <1>3, <2>1
  <2>4. Promise!Mirror
    BY <1>1, <1>3, <2>1, <2>2, <2>3 DEF Promise!Mirror
  <2>. QED BY <2>4 DEF Promise!RecordNext
<1>. QED BY <1>1, <1>2, <1>3

LEMMA AnswerAcknowledges ==
  ASSUME RInv, NEW s \in Snapshot, Prefix(s, head), Prefix(s, hive),
         UNCHANGED <<head, hive>>, acked' = acked \union {s}
  PROVE  Promise!RecordNext
<1>1. s = SubSeq(head, 1, Len(s)) /\ Len(s) \in 1 .. Len(head)
  BY PrefixIsPart, SnapshotIs, HistoryIs DEF Prefix, RInv, TInv, TypeOK
<1>2. Promise!Acknowledge(s)
  BY SamePrefix DEF Promise!Acknowledge
<1>. QED BY <1>1, <1>2 DEF Promise!RecordNext

LEMMA RecordRefines ==
  ASSUME RInv, [Next]_vars
  PROVE  Promise!RecordNext \/ UNCHANGED Promise!record
<1>. DEFINE Still == UNCHANGED <<head, hive, acked>>
<1>1. Still => UNCHANGED Promise!record
  BY DEF Promise!record
<1>2. CASE UNCHANGED vars
  BY <1>1, <1>2 DEF vars, folder
<1>3. ASSUME NEW c \in Client,
             \/ \E i \in Item : Plan(c, i)
             \/ Advance(c) \/ Checkpoint(c) \/ ReadHive(c) \/ LockBusy(c)
             \/ OpenEnter(c) \/ OpenBusy(c) \/ Note(c) \/ RecordFailure(c)
             \/ Reread(c) \/ Crash(c)
      PROVE  Still
  BY <1>3 DEF Plan, Advance, Checkpoint, ReadHive, LockBusy, OpenEnter, OpenBusy,
     Note, RecordFailure, Reread, Crash, folder, Recover, PutReceipt, Interrupted
<1>4. ASSUME NEW c \in Client, Lock(c)
      PROVE  Promise!RecordNext \/ Still
  <2>1. request[c] \in Snapshot
    BY <1>4, RequestIs DEF Lock, RInv
  <2>2. CASE Complete(hybrid[request[c]])
    <3>1. Prefix(request[c], head) /\ Prefix(request[c], hive)
      BY <2>1, <2>2 DEF Complete, RInv, ReceiptsAreTrue
    <3>. QED BY <1>4, <2>1, <2>2, <3>1, AnswerAcknowledges DEF Lock, folder
  <2>3. CASE ~Complete(hybrid[request[c]])
    BY <1>4, <2>3 DEF Lock, folder
  <2>. QED BY <2>2, <2>3
<1>5. ASSUME NEW c \in Client, Write(c) \/ WriteFails(c)
      PROVE  Promise!RecordNext \/ UNCHANGED Promise!record
  <2>1. pc[c] \in Writing /\ UNCHANGED <<hive, acked>>
    BY <1>5 DEF Write, WriteFails
  <2>2. Publish(pc[c], request[c]) \/ Interrupted(pc[c], request[c])
    BY <1>5 DEF Write, WriteFails
  <2>3. Interrupted(pc[c], request[c]) => head' = head
    BY DEF Interrupted
  <2>. QED BY <1>1, <2>1, <2>2, <2>3, HeadWrites
<1>6. ASSUME NEW c \in Client, Record(c)
      PROVE  Promise!RecordNext
  <2>1. /\ pc[c] = "record" /\ request[c] \in Snapshot
        /\ UNCHANGED <<head, hive>> /\ acked' = acked \union {request[c]}
    BY <1>6, RequestIs DEF Record, PutReceipt, RInv
  <2>2. Prefix(request[c], head) /\ Prefix(request[c], hive)
    BY <2>1 DEF RInv, Working, Works
  <2>. QED BY <2>1, <2>2, AnswerAcknowledges
<1>7. ASSUME ArchiveCheck \/ ArchiveMove \/ ArchiveFails
      PROVE  Still
  BY <1>7 DEF ArchiveCheck, ArchiveMove, ArchiveFails, folder
<1>8. CASE Next
  BY <1>1, <1>3, <1>4, <1>5, <1>6, <1>7, <1>8, Steps, HiveMirrors
<1>. QED BY <1>2, <1>8

(* The two sides implement one record and a copy that follows it, and what *)
(* any client was told is committed is never missing on either.            *)
THEOREM Refinement == FairSpec => ImplementsRecord
<1>1. Init => Promise!RecordInit
  BY DEF Init, Promise!RecordInit
<1>2. RInv /\ [Next]_vars => [Promise!RecordNext]_(Promise!record)
  BY RecordRefines
<1>3. Promise!RecordInit /\ [][Promise!RecordNext]_(Promise!record) => ImplementsRecord
  BY DEF ImplementsRecord, Promise!RecordSpec
<1>. QED BY <1>1, <1>2, <1>3, RecordInvariant, PTL DEF FairSpec, Spec

=============================================================================
