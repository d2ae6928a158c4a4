--------------------------- MODULE HybridProgress ---------------------------
(***************************************************************************)
(* The apply-progress of one change in the hybrid store: the files of the  *)
(* OpenSpec change folder and a head in the local hive-daemon, advanced    *)
(* one after the other by jarvis processes.                                *)
(*                                                                         *)
(* A checkpoint names the snapshot it extends, and its request ID is a     *)
(* digest of everything in it.  So a request is the snapshot it would      *)
(* publish, and a snapshot is the sequence of the items recorded up to it. *)
(* The OpenSpec side stages a file, syncs it and renames it, first the     *)
(* evidence, then the receipt, then the head; the Hive side is one SQLite  *)
(* transaction.  A hybrid receipt says which sides committed.              *)
(***************************************************************************)
EXTENDS Naturals, Sequences, FiniteSets

CONSTANTS
  Client,      \* jarvis processes, each run again and again by an agent
  LowLevel,    \* those that use `progress advance`, the others `checkpoint`
  Item,        \* the items of work of the change
  Writes,      \* bound on the length of the history
  MaxFaults,   \* bound on crashes, failed writes, lost calls and lock timeouts
  None

ASSUME HybridProgressAssumption ==
  /\ LowLevel \subseteq Client
  /\ Writes \in Nat /\ MaxFaults \in Nat

VARIABLES
  (* The change folder *)
  root,       \* whether it is active, gone to the archive, or made anew
  evidence,   \* apply-evidence: snapshots whose batch is there
  receipts,   \* .apply-progress-receipts: snapshots
  head,       \* apply-progress.md, <<>> when there is none
  staged,     \* .apply-progress-stage-*: what an interrupted write left
  hybrid,     \* .apply-progress-hybrid-receipts: by request
  (* hive-daemon *)
  hive,       \* the head in sdd_apply_heads
  (* The archiver, and the clients *)
  archiver,   \* whether an archive has been validated and is about to move
  pc,
  request,    \* the request of a client, <<>> before the first
  view,       \* what it read of the OpenSpec side, None for an error
  work,       \* the hybrid receipt it is filling in
  fresh,      \* whether it found none
  outcome,    \* what it answered last
  faults,     \* faults spent of MaxFaults
  (* History *)
  acked       \* the snapshots some client was told are committed

folder == <<root, evidence, receipts, head, staged, hybrid>>
client == <<request, view, work, fresh>>
vars == <<folder, hive, archiver, pc, client, outcome, faults, acked>>

\* s is the snapshot t, or an ancestor of it.
Prefix(s, t) == Len(s) <= Len(t) /\ \A i \in 1 .. Len(s) : s[i] = t[i]
Base(s) == SubSeq(s, 1, Len(s) - 1)
Holds(s, i) == \E k \in 1 .. Len(s) : s[k] = i
Ancestors(s) == {SubSeq(s, 1, n) : n \in 1 .. Len(s)}

Snapshot ==
  {s \in UNION {[1 .. n -> Item] : n \in 1 .. Writes} :
     \A i, j \in 1 .. Len(s) : s[i] = s[j] => i = j}
History == Snapshot \union {<<>>}

Outcome == {"pending", "committed", "failed"}
Receipt == [open : Outcome, hive : Outcome]
Pending == [open |-> "pending", hive |-> "pending"]
File == {"batch", "receipt", "head"}
Stage(file, s, torn) == [file |-> file, of |-> s, torn |-> torn]

Init ==
  /\ root = "active" /\ evidence = {} /\ receipts = {} /\ head = <<>>
  /\ staged = {} /\ hybrid = [s \in Snapshot |-> None]
  /\ hive = <<>> /\ archiver = "idle"
  /\ pc = [c \in Client |-> "idle"]
  /\ request = [c \in Client |-> <<>>]
  /\ view = [c \in Client |-> None]
  /\ work = [c \in Client |-> Pending]
  /\ fresh = [c \in Client |-> FALSE]
  /\ outcome = [c \in Client |-> "none"]
  /\ faults = 0 /\ acked = {}

-----------------------------------------------------------------------------
(* The locks: the OpenSpec one is held while files are written or moved,   *)
(* the hybrid one throughout Hybrid.advance.                               *)
Writing == {"batch", "receipt", "head"}
Advancing ==
  {"open", "note", "hive", "record", "conflict", "fail", "reread"} \union Writing

\* Faulty variant: nobody takes the hybrid lock.
HybridUnlocked == TRUE
HybridFree == \A c \in Client : pc[c] \notin Advancing
OpenFree == archiver = "idle" /\ \A c \in Client : pc[c] \notin Writing

(* What proves a history.                                                  *)
OnPath(s, t, known) ==
  Prefix(s, t) /\ \A n \in Len(s) .. Len(t) - 1 : SubSeq(t, 1, n) \in known
\* Faulty variant: receipts are not traced to the head.
NoLineage(known) == TRUE
Lineage(known) == \A s \in known : OnPath(s, head, known)
Evidenced(s) == Ancestors(s) \subseteq evidence

(* InspectPublication.                                                     *)
Inspected ==
  IF /\ root = "active" /\ staged = {} /\ Lineage(receipts) /\ Evidenced(head)
    THEN head ELSE None

Fault == faults < MaxFaults /\ faults' = faults + 1
NoFault == faults' = faults

Goto(c, step) == pc' = [pc EXCEPT ![c] = step] /\ UNCHANGED outcome
Answer(c, what) ==
  /\ pc' = [pc EXCEPT ![c] = "idle"]
  /\ outcome' = [outcome EXCEPT ![c] = what]

-----------------------------------------------------------------------------
(* An agent that is done, or was told that its base is stale, plans its    *)
(* next checkpoint from the head that it sees on either side.              *)
Settled(c) == request[c] = <<>> \/ outcome[c] \in {"committed", "stale"}

Plan(c, i) ==
  /\ pc[c] = "idle" /\ Settled(c)
  /\ \E base \in {head, hive} :
       /\ ~Holds(base, i) /\ Len(base) < Writes
       /\ request' = [request EXCEPT ![c] = Append(base, i)]
  /\ outcome' = [outcome EXCEPT ![c] = "none"]
  /\ UNCHANGED <<folder, hive, archiver, pc, view, work, fresh, faults, acked>>

(* Both commands end up in Hybrid.Advance, which wants the change root.    *)
ToAdvance(c) ==
  IF root = "active" THEN Goto(c, "lock") ELSE Answer(c, "blocked")

Advance(c) ==
  /\ c \in LowLevel
  /\ pc[c] = "idle" /\ ~Settled(c)
  /\ ToAdvance(c)
  /\ UNCHANGED <<folder, hive, archiver, client, faults, acked>>

(* checkpoint reads the current state first: OpenSpec, then Hive.          *)
Checkpoint(c) ==
  /\ c \notin LowLevel
  /\ pc[c] = "idle" /\ ~Settled(c)
  /\ \/ OpenFree /\ NoFault /\ view' = [view EXCEPT ![c] = Inspected]
     \/ ~OpenFree /\ Fault /\ view' = [view EXCEPT ![c] = None]
  /\ Goto(c, "read")
  /\ UNCHANGED <<folder, hive, archiver, request, work, fresh, acked>>

(* HasReceipt: exactly one side is known to have committed.                *)
\* Faulty variant: the hybrid receipt is not consulted.
HalfNever(r) == FALSE
HalfDone(r) ==
  /\ hybrid[r] # None
  /\ (hybrid[r].open = "committed") # (hybrid[r].hive = "committed")

ReadHive(c) ==
  /\ pc[c] = "read"
  /\ \/ NoFault /\ (IF view[c] = None \/ view[c] # hive
                      THEN IF HalfDone(request[c]) THEN ToAdvance(c)
                                                   ELSE Answer(c, "blocked")
                      ELSE ToAdvance(c))
     \/ Fault /\ (IF HalfDone(request[c]) THEN ToAdvance(c)
                                          ELSE Answer(c, "blocked"))
  /\ UNCHANGED <<folder, hive, archiver, client, acked>>

-----------------------------------------------------------------------------
(* Hybrid.advance.                                                         *)
\* Faulty variant: the OpenSpec side alone completes a receipt.
CompleteHere(r) == r # None /\ r.open = "committed"
Complete(r) == r # None /\ r.open = "committed" /\ r.hive = "committed"

Lock(c) ==
  LET r == hybrid[request[c]] IN
  /\ pc[c] = "lock" /\ HybridFree
  /\ IF Complete(r)
       THEN /\ Answer(c, "committed")
            /\ acked' = acked \union {request[c]}
            /\ UNCHANGED <<work, fresh>>
       ELSE /\ work' = [work EXCEPT ![c] = IF r = None THEN Pending ELSE r]
            /\ fresh' = [fresh EXCEPT ![c] = r = None]
            /\ Goto(c, "open")
            /\ UNCHANGED acked
  /\ UNCHANGED <<folder, hive, archiver, request, view, faults>>

(* A lock that another holds for five seconds.                             *)
LockBusy(c) ==
  /\ pc[c] = "lock" /\ ~HybridFree /\ Fault
  /\ Answer(c, "busy")
  /\ UNCHANGED <<folder, hive, archiver, client, acked>>

(* OpenSpec.advance, up to the first write.  What the same request left    *)
(* staged is published; what anything else left refuses the request.       *)
Whole(file, s) == Stage(file, s, FALSE) \in staged
Mine(s) == {Stage(file, s, FALSE) : file \in File}
Found(s) == receipts \union {t \in {s} : Whole("receipt", s)}

\* Faulty variant: the expected head is not compared.
MatchesAny(s) == TRUE
Matches(s) == head = Base(s)

OpenRefuses(s) ==
  \/ root # "active"
  \/ ~(staged \subseteq Mine(s))
  \/ s \notin Found(s) /\ ~Lineage(receipts)
  \/ ~Evidenced(head)
OpenReplays(s) == s \in Found(s) /\ OnPath(s, head, Found(s))

Recover(s) ==
  /\ evidence' = evidence \union {t \in {s} : Whole("batch", s)}
  /\ receipts' = Found(s)
  /\ staged' = staged \ {Stage("batch", s, FALSE), Stage("receipt", s, FALSE)}
  /\ UNCHANGED <<root, head, hybrid>>

OpenDone(c) ==
  /\ work' = [work EXCEPT ![c].open = "committed"]
  /\ Goto(c, IF fresh[c] THEN "hive" ELSE "note")

OpenEnter(c) ==
  LET s == request[c] IN
  /\ pc[c] = "open" /\ OpenFree
  /\ IF OpenRefuses(s)
       THEN /\ work' = [work EXCEPT ![c].open = "failed"]
            /\ Goto(c, "fail")
            /\ UNCHANGED folder
       ELSE /\ Recover(s)
            /\ CASE OpenReplays(s) -> OpenDone(c)
                 [] ~OpenReplays(s) /\ Matches(s) ->
                      Goto(c, "batch") /\ UNCHANGED work
                 [] ~OpenReplays(s) /\ ~Matches(s) ->
                      /\ work' = [work EXCEPT ![c].open = "failed"]
                      /\ Goto(c, "conflict")
  /\ NoFault
  /\ UNCHANGED <<hive, archiver, request, view, fresh, acked>>

OpenBusy(c) ==
  /\ pc[c] = "open" /\ ~OpenFree /\ Fault
  /\ work' = [work EXCEPT ![c].open = "failed"]
  /\ Goto(c, "fail")
  /\ UNCHANGED <<folder, hive, archiver, request, view, fresh, acked>>

(* The three files, each staged, synced and renamed into place.            *)
Publish(file, s) ==
  /\ evidence' = evidence \union {t \in {s} : file = "batch"}
  /\ receipts' = receipts \union {t \in {s} : file = "receipt"}
  /\ head' = IF file = "head" THEN s ELSE head
  /\ staged' = staged \ {Stage(file, s, FALSE)}
  /\ UNCHANGED <<root, hybrid>>

\* Faulty variant: the head is written before its receipt.
FollowingHeadFirst(file) == IF file = "batch" THEN "head" ELSE "receipt"
Following(file) == IF file = "batch" THEN "receipt" ELSE "head"

Write(c) ==
  /\ pc[c] \in Writing
  /\ Publish(pc[c], request[c])
  /\ IF pc[c] = Following(Following("batch"))
       THEN OpenDone(c)
       ELSE Goto(c, Following(pc[c])) /\ UNCHANGED work
  /\ NoFault
  /\ UNCHANGED <<hive, archiver, request, view, fresh, acked>>

(* What is left of a write that ends early: nothing, or a stage.           *)
Interrupted(file, s) ==
  /\ \/ UNCHANGED staged
     \/ /\ ~Whole(file, s)
        /\ \E torn \in BOOLEAN : staged' = staged \union {Stage(file, s, torn)}
  /\ UNCHANGED <<root, evidence, receipts, head, hybrid>>

(* An error of the file system, before or after the rename.                *)
WriteFails(c) ==
  /\ pc[c] \in Writing /\ Fault
  /\ Interrupted(pc[c], request[c]) \/ Publish(pc[c], request[c])
  /\ work' = [work EXCEPT ![c].open = "failed"]
  /\ Goto(c, "fail")
  /\ UNCHANGED <<hive, archiver, request, view, fresh, acked>>

-----------------------------------------------------------------------------
(* writeReceipt, which makes the directories it needs.                     *)
PutReceipt(c) ==
  /\ hybrid' = [hybrid EXCEPT ![request[c]] = work[c]]
  /\ root' = IF root = "gone" THEN "stray" ELSE root
  /\ UNCHANGED <<evidence, receipts, head, staged>>

(* A receipt that was found is brought up to date after each side.         *)
Note(c) ==
  /\ pc[c] = "note"
  /\ PutReceipt(c) /\ Goto(c, "hive") /\ NoFault
  /\ UNCHANGED <<hive, archiver, client, acked>>

(* AdvanceApplyProgress in the daemon: replay, compare and swap, conflict. *)
HiveAdvanced(s) == IF hive = Base(s) THEN s ELSE hive
\* Faulty variant: any answer is an acknowledgement.
HoldsAny(s) == TRUE
HoldsNow(s) == Prefix(s, HiveAdvanced(s))

Hive(c) ==
  LET s == request[c] IN
  /\ pc[c] = "hive"
  /\ hive' = HiveAdvanced(s)
  /\ IF HoldsNow(s)
       THEN work' = [work EXCEPT ![c].hive = "committed"] /\ Goto(c, "record")
       ELSE work' = [work EXCEPT ![c].hive = "failed"] /\ Goto(c, "fail")
  /\ NoFault
  /\ UNCHANGED <<folder, archiver, request, view, fresh, acked>>

(* The daemon is not reached, or its answer is lost.                       *)
HiveFails(c) ==
  /\ pc[c] = "hive" /\ Fault
  /\ hive' \in {hive, HiveAdvanced(request[c])}
  /\ work' = [work EXCEPT ![c].hive = "failed"]
  /\ Goto(c, "fail")
  /\ UNCHANGED <<folder, archiver, request, view, fresh, acked>>

Record(c) ==
  /\ pc[c] = "record"
  /\ PutReceipt(c)
  /\ acked' = acked \union {request[c]}
  /\ Answer(c, "committed") /\ NoFault
  /\ UNCHANGED <<hive, archiver, client>>

(* failedAdvance.  After a bare conflict both sides are read again: if     *)
(* they agree the request is stale, and its receipt goes unless a side     *)
(* committed.                                                              *)
RecordFailure(c) ==
  /\ pc[c] \in {"fail", "conflict"}
  /\ PutReceipt(c)
  /\ IF pc[c] = "fail" THEN Answer(c, "blocked") ELSE Goto(c, "reread")
  /\ NoFault
  /\ UNCHANGED <<hive, archiver, client, acked>>

Agreed == Inspected # None /\ Inspected = hive

Reread(c) ==
  LET r == work[c] IN
  /\ pc[c] = "reread"
  /\ \/ /\ OpenFree /\ Agreed
        /\ hybrid' = IF "committed" \in {r.open, r.hive} THEN hybrid
                       ELSE [hybrid EXCEPT ![request[c]] = None]
        /\ Answer(c, "stale") /\ NoFault
     \/ /\ IF OpenFree /\ ~Agreed THEN NoFault ELSE Fault
        /\ UNCHANGED hybrid
        /\ Answer(c, "blocked")
  /\ UNCHANGED <<root, evidence, receipts, head, staged, hive, archiver, client,
                 acked>>

(* The process is killed, or cannot write its hybrid receipt.              *)
Crash(c) ==
  /\ pc[c] # "idle" /\ Fault
  /\ IF pc[c] \in Writing THEN Interrupted(pc[c], request[c])
                          ELSE UNCHANGED folder
  /\ Answer(c, "lost")
  /\ UNCHANGED <<hive, archiver, client, acked>>

-----------------------------------------------------------------------------
(* archive, under the OpenSpec lock: everything is validated again, the    *)
(* specification is synced, and the folder is moved.                       *)
AllDone(s) == \A i \in Item : Holds(s, i)

\* Faulty variant: the Hive side is not compared.
SameInHiveUnread == TRUE
SameInHive == hive = head

ArchiveCheck ==
  /\ OpenFree
  /\ Inspected # None /\ AllDone(head) /\ head \in receipts /\ SameInHive
  /\ archiver' = "moving"
  /\ UNCHANGED <<folder, hive, pc, client, outcome, faults, acked>>

ArchiveMove ==
  /\ archiver = "moving"
  /\ root' = "gone" /\ archiver' = "idle"
  /\ hybrid' = [s \in Snapshot |-> None]
  /\ UNCHANGED <<evidence, receipts, head, staged, hive, pc, client, outcome,
                 faults, acked>>

ArchiveFails ==
  /\ archiver = "moving" /\ Fault
  /\ archiver' = "idle"
  /\ UNCHANGED <<folder, hive, pc, client, outcome, acked>>

-----------------------------------------------------------------------------
Locking(c) == Lock(c) \/ OpenEnter(c)
Moving(c) ==
  \/ Advance(c) \/ (NoFault /\ (Checkpoint(c) \/ ReadHive(c) \/ Reread(c)))
  \/ Write(c) \/ Note(c) \/ Hive(c) \/ Record(c) \/ RecordFailure(c)
Busy(c) == LockBusy(c) \/ OpenBusy(c)
Failing(c) ==
  Checkpoint(c) \/ ReadHive(c) \/ WriteFails(c) \/ HiveFails(c) \/ Reread(c) \/ Crash(c)

Next ==
  \/ \E c \in Client :
       \/ \E i \in Item : Plan(c, i)
       \/ Locking(c) \/ Moving(c) \/ Busy(c) \/ Failing(c)
  \/ ArchiveCheck \/ ArchiveMove \/ ArchiveFails

Spec == Init /\ [][Next]_vars

(* A blocked or interrupted request is run again, and runs go on.          *)
Fairness ==
  /\ \A c \in Client : WF_vars(Moving(c)) /\ SF_vars(Locking(c))
  /\ WF_vars(ArchiveMove)
FairSpec == Spec /\ Fairness

-----------------------------------------------------------------------------
(* Types, and one process at a time in Hybrid.advance.                     *)
TypeOK ==
  /\ root \in {"active", "gone", "stray"}
  /\ evidence \subseteq Snapshot /\ receipts \subseteq Snapshot
  /\ head \in History /\ hive \in History
  /\ staged \subseteq [file : File, of : Snapshot, torn : BOOLEAN]
  /\ hybrid \in [Snapshot -> Receipt \union {None}]
  /\ archiver \in {"idle", "moving"}
  /\ pc \in [Client -> {"idle", "read", "lock"} \union Advancing]
  /\ request \in [Client -> History]
  /\ view \in [Client -> History \union {None}]
  /\ work \in [Client -> Receipt] /\ fresh \in [Client -> BOOLEAN]
  /\ outcome \in [Client -> {"none", "committed", "stale", "blocked", "busy", "lost"}]
  /\ faults \in 0 .. MaxFaults
  /\ acked \subseteq Snapshot
  /\ \A c, d \in Client : pc[c] \in Advancing /\ pc[d] \in Advancing => c = d

(* Whatever is interrupted where, evidence and receipt were there before   *)
(* the head they belong to, at most one request is published beyond it,    *)
(* and only that request has anything staged: no two histories ever exist. *)
HeadIsProven ==
  /\ Ancestors(head) \subseteq evidence \intersect receipts
  /\ \E s \in History :
       /\ receipts \union {e.of : e \in staged} \subseteq Ancestors(head) \union {s}
       /\ s # <<>> => Base(s) = head

(* A side that a hybrid receipt calls committed has the snapshot.          *)
ReceiptsAreTrue ==
  \A s \in Snapshot : hybrid[s] # None =>
    /\ hybrid[s].open = "committed" => Prefix(s, head)
    /\ hybrid[s].hive = "committed" => Prefix(s, hive)

(* A change that has left for the archive is complete in both stores, and  *)
(* stays what it was.                                                      *)
ArchivedInBoth == root # "active" => AllDone(head) /\ hive = head

(* The two sides implement one record and a copy that follows it; nothing  *)
(* a client was told is committed is ever missing on either.               *)
Promise == INSTANCE ProgressRecord WITH log <- head, copy <- hive, acked <- acked
ImplementsRecord == Promise!RecordSpec

(* A checkpoint that is run again ends: it is committed or its base is     *)
(* stale, unless the change was archived, an interrupted write left        *)
(* something that stops the OpenSpec side, or the sides differ and no      *)
(* hybrid receipt names the half that committed: a crash came between      *)
(* them, or a retry that failed has overwritten it.                        *)
Residue == staged # {} \/ ~Lineage(receipts)
Unmarked ==
  \E s \in Ancestors(head) \ Ancestors(hive) :
    hybrid[s] = None \/ hybrid[s].open # "committed"
RerunsEnd ==
  \/ \A c \in Client : []<>Settled(c)
  \/ <>[](root # "active" \/ Residue \/ Unmarked)

(* What the hybrid receipt is for, "before either backend mutation": a     *)
(* run that dies between the two sides costs no more than running the      *)
(* identical checkpoint again.                                             *)
InterruptedIsRepaired ==
  (\A c \in Client : []<>Settled(c)) \/ <>[](root # "active" \/ Residue)

(* Nothing comes back where an archived change was.                        *)
ArchivedIsGone == root # "stray"
=============================================================================
