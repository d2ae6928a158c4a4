----------------------------- MODULE Quarantine -----------------------------
(***************************************************************************)
(* Distribution of quarantine commands to one account's device.  An        *)
(* administrator blocks and unblocks projects in hive-api; every Drain of  *)
(* the device, whatever project it syncs, first resends the                *)
(* acknowledgements it still owes, then applies the account's inbox of     *)
(* commands, and only then syncs.  A /sync of a blocked project is         *)
(* answered with the command, which is applied as well.                    *)
(*                                                                         *)
(* A command is its project and its generation: the ids and the tokens are *)
(* random and unique.  Project spellings are taken to be canonical.        *)
(***************************************************************************)
EXTENDS Naturals, Sequences

CONSTANTS
  Project,      \* projects, numbered in the order of their keys
  Drain,        \* concurrent drains on the device
  Target,       \* Target[r]: the project drain r syncs
  Process,      \* Process[r]: the hive-daemon process it runs in
  MaxCommands,  \* MaxCommands[p]: bound on the commands for p
  Users,        \* whether the device's user archives and creates projects
  MaxFaults     \* bound on lost requests, lost responses and crashes

ASSUME QuarantineAssumption ==
  /\ Project \subseteq Nat
  /\ Target \in [Drain -> Project]
  /\ DOMAIN Process = Drain
  /\ MaxCommands \in [Project -> Nat]
  /\ Users \in BOOLEAN
  /\ MaxFaults \in Nat

VARIABLES
  (* hive-api *)
  commands,   \* commands[p]: project_quarantine_commands, by generation
  delivered,  \* project_block_ack_deliveries of the account, <<p, generation>>
  acks,       \* acks[p][g]: project_block_acks of the account
  (* The device's SQLite file *)
  row,        \* row[p]: project_blocks
  archived,   \* archived[p]: "no", or who archived it: "quarantine" or "user"
  marker,     \* marker[p]: whether project_quarantine_archives has p
  holds,      \* holds[p]: whether the device has rows of p
  (* The drains *)
  pc, via,    \* where a drain is, and where its current command came from
  todo,       \* acknowledgements to resend, or commands of the inbox to apply
  current,    \* the acknowledgement being prepared or sent
  ended,      \* ended[r]: how the last drain of r ended
  faults      \* faults spent of MaxFaults

server == <<commands, delivered, acks>>
device == <<row, archived, marker, holds>>
drains == <<pc, via, todo, current, ended>>
vars == <<server, device, drains, faults>>

Action == {"block", "unblock"}
AckStatus == {"none", "applied", "failed", "skipped"}
Ack == [p : Project, g : Nat, real : BOOLEAN, status : AckStatus]
NoAck == [g |-> 0]
NoRow == [gen |-> 0, act |-> "unblock", real |-> FALSE, pending |-> FALSE,
          status |-> "none"]
Step == {"idle", "retry", "retried", "poll", "inbox", "refused", "apply",
         "archive", "restore", "mark", "pending", "send", "settle"}

Latest(p) == Len(commands[p])
HeadBlocked(p) == commands[p] # <<>> /\ commands[p][Latest(p)] = "block"

Init ==
  /\ commands = [p \in Project |-> <<>>]
  /\ delivered = {}
  /\ acks = [p \in Project |-> [g \in 1 .. MaxCommands[p] |-> "none"]]
  /\ row = [p \in Project |-> NoRow]
  /\ archived = [p \in Project |-> "no"]
  /\ marker = [p \in Project |-> FALSE]
  /\ holds \in IF Users THEN [Project -> BOOLEAN] ELSE {[p \in Project |-> TRUE]}
  /\ pc = [r \in Drain |-> "idle"]
  /\ via = [r \in Drain |-> "inbox"]
  /\ todo = [r \in Drain |-> {}]
  /\ current = [r \in Drain |-> NoAck]
  /\ ended = [r \in Drain |-> "none"]
  /\ faults = 0

-----------------------------------------------------------------------------
(* The administrator.  The transition and its command are one transaction  *)
(* under the project's advisory lock; blocking a blocked project again is  *)
(* a new command.                                                          *)
BlockProject(p, act) ==
  /\ Latest(p) < MaxCommands[p]
  /\ commands' = [commands EXCEPT ![p] = Append(@, act)]
  /\ UNCHANGED <<delivered, acks, device, drains, faults>>

-----------------------------------------------------------------------------
(* A drain leases its project's lifecycle lock, a reader-writer lock of    *)
(* its process, until it ends.  A writer that waits keeps readers out.     *)
Running(r) == pc[r] # "idle"
Readers(x, p) == {r \in Drain : Process[r] = x /\ Target[r] = p /\ Running(r)}
WriterWaits(x, p) ==
  \E r \in Drain : Process[r] = x /\ pc[r] = "archive" /\ current[r].p = p

(* ListPendingProjectBlockAcks.  A row that has no durable status yet is   *)
(* reported as failed.                                                     *)
\* Faulty variant: the status goes out blank.
OwedBlank(p) ==
  [p |-> p, g |-> row[p].gen, real |-> row[p].real, status |-> row[p].status]
Owed(p) ==
  [p |-> p, g |-> row[p].gen, real |-> row[p].real,
   status |-> IF row[p].status = "none" THEN "failed" ELSE row[p].status]

StartDrain(r) ==
  /\ pc[r] = "idle"
  /\ Readers(Process[r], Target[r]) = {}   \* single-flight
  /\ ~WriterWaits(Process[r], Target[r])
  /\ pc' = [pc EXCEPT ![r] = "retry"]
  /\ todo' = [todo EXCEPT ![r] = {Owed(p) : p \in {q \in Project : row[q].pending}}]
  /\ UNCHANGED <<server, device, via, current, ended, faults>>

(* The drain is over; its locals and its lease go.                         *)
End(r, how) ==
  /\ pc' = [pc EXCEPT ![r] = "idle"]
  /\ via' = [via EXCEPT ![r] = "inbox"]
  /\ todo' = [todo EXCEPT ![r] = {}]
  /\ current' = [current EXCEPT ![r] = NoAck]
  /\ ended' = [ended EXCEPT ![r] = how]

(* Acknowledge, in the server: while the project is blocked only the       *)
(* command that blocks it can be acknowledged, and only with the token of  *)
(* the account's delivery.                                                 *)
\* Faulty variant: what the head does not block cannot be acknowledged.
AcceptedIfBlocked(a) ==
  /\ HeadBlocked(a.p) /\ a.g = Latest(a.p)
  /\ <<a.p, a.g>> \in delivered /\ a.real
Accepted(a) ==
  /\ HeadBlocked(a.p) => a.g = Latest(a.p)
  /\ <<a.p, a.g>> \in delivered /\ a.real

RecordAck(a) == acks' = [acks EXCEPT ![a.p][a.g] = a.status]

(* The device's row of the command an acknowledgement is for.              *)
IsOf(a) == row[a.p].gen = a.g /\ row[a.p].real = a.real

(* retryPendingProjectBlockAcks: errors are logged, never returned.        *)
Retry(r) ==
  /\ pc[r] = "retry"
  /\ \E a \in todo[r] :
       /\ todo' = [todo EXCEPT ![r] = @ \ {a}]
       /\ IF Accepted(a)
            THEN /\ RecordAck(a)
                 /\ current' = [current EXCEPT ![r] = a]
                 /\ pc' = [pc EXCEPT ![r] = "retried"]
            ELSE UNCHANGED <<acks, current, pc>>
  /\ UNCHANGED <<commands, delivered, device, via, ended, faults>>

Settle(a) ==
  row' = IF IsOf(a)
           THEN [row EXCEPT ![a.p].pending = FALSE, ![a.p].status = a.status]
           ELSE row

RetrySettled(r) ==
  /\ pc[r] = "retried"
  /\ Settle(current[r])
  /\ pc' = [pc EXCEPT ![r] = "retry"]
  /\ current' = [current EXCEPT ![r] = NoAck]
  /\ UNCHANGED <<server, archived, marker, holds, via, todo, ended, faults>>

RetriesDone(r) ==
  /\ pc[r] = "retry" /\ todo[r] = {}
  /\ pc' = [pc EXCEPT ![r] = "poll"]
  /\ UNCHANGED <<server, device, via, todo, current, ended, faults>>

(* ListInboxCommands: a delivery for every command there has been, and all *)
(* of them are listed each time.                                           *)
Command == UNION {{p} \X (1 .. Latest(p)) : p \in Project}
\* Faulty variant: a command delivered before is not listed again.
ListedOnce == Command \ delivered
Listed == Command

Poll(r) ==
  /\ pc[r] = "poll"
  /\ delivered' = delivered \union Command
  /\ todo' = [todo EXCEPT ![r] =
       {[p |-> c[1], g |-> c[2], real |-> TRUE, status |-> "none"] : c \in Listed}]
  /\ pc' = [pc EXCEPT ![r] = "inbox"]
  /\ UNCHANGED <<commands, acks, device, via, current, ended, faults>>

(* RecordProjectBlock: only a newer generation replaces the row.           *)
\* Faulty variant: any generation does.
IsAnyGeneration(a) == row[a.p].gen # a.g
IsNewer(a) == row[a.p].gen < a.g

Recorded(a) ==
  IF IsNewer(a)
    THEN [gen |-> a.g, act |-> commands[a.p][a.g], real |-> a.real,
          pending |-> TRUE, status |-> "none"]
    ELSE row[a.p]

IsFirst(a, S) ==
  a \in S /\ \A b \in S : a.p < b.p \/ (a.p = b.p /\ a.g <= b.g)

(* The next command of the inbox is recorded and read back.  One that the  *)
(* row has left behind is skipped.                                         *)
NextCommand(r) ==
  /\ pc[r] = "inbox"
  /\ \E a \in todo[r] :
       /\ IsFirst(a, todo[r])
       /\ todo' = [todo EXCEPT ![r] = @ \ {a}]
       /\ row' = [row EXCEPT ![a.p] = Recorded(a)]
       /\ IF Recorded(a).gen = a.g
            THEN /\ current' = [current EXCEPT ![r] = [a EXCEPT !.status = "applied"]]
                 /\ pc' = [pc EXCEPT ![r] = "apply"]
            ELSE /\ current' = [current EXCEPT ![r] = [a EXCEPT !.status = "skipped"]]
                 /\ pc' = [pc EXCEPT ![r] = "pending"]
  /\ via' = [via EXCEPT ![r] = "inbox"]
  /\ UNCHANGED <<server, archived, marker, holds, ended, faults>>

(* /sync, once the inbox is done.  A blocked project is refused with its   *)
(* command; the delivery made for it is rolled back with the refused       *)
(* transaction, so its token is good only if the inbox made one before.    *)
Sync(r) ==
  /\ pc[r] = "inbox" /\ todo[r] = {}
  /\ LET p == Target[r] IN
     IF HeadBlocked(p)
       THEN /\ current' = [current EXCEPT ![r] =
                 [p |-> p, g |-> Latest(p), real |-> <<p, Latest(p)>> \in delivered,
                  status |-> "none"]]
            /\ pc' = [pc EXCEPT ![r] = "refused"]
            /\ UNCHANGED <<via, todo, ended>>
       ELSE End(r, "synced")
  /\ UNCHANGED <<server, device, faults>>

(* handleProjectBlocked acknowledges the row's own command and token.      *)
HandleBlocked(r) ==
  /\ pc[r] = "refused"
  /\ LET a == current[r] IN
       /\ row' = [row EXCEPT ![a.p] = Recorded(a)]
       /\ current' = [current EXCEPT ![r] =
            [p |-> a.p, g |-> Recorded(a).gen, real |-> Recorded(a).real,
             status |-> "applied"]]
  /\ via' = [via EXCEPT ![r] = "sync"]
  /\ pc' = [pc EXCEPT ![r] = "apply"]
  /\ UNCHANGED <<server, archived, marker, holds, todo, ended, faults>>

-----------------------------------------------------------------------------
(* QuarantineBlockedProject reads the row again and does what it says.     *)
ReadRow(r) ==
  /\ pc[r] = "apply"
  /\ pc' = [pc EXCEPT ![r] =
       IF row[current[r].p].act = "block" THEN "archive" ELSE "restore"]
  /\ UNCHANGED <<server, device, via, todo, current, ended, faults>>

CanWrite(x, p) == Readers(x, p) = {}

\* Faulty variant: an archive that failed is acknowledged as applied.
FailedAsApplied(a) == [a EXCEPT !.status = "applied"]
Failed(a) == [a EXCEPT !.status = "failed"]

(* ArchiveGovernanceProject, under the lifecycle write lock.  A project    *)
(* archived already is left as it is; one the device does not have is an   *)
(* error, and the acknowledgement says failed.                             *)
Archive(r) ==
  /\ pc[r] = "archive"
  /\ LET p == current[r].p IN
     /\ CanWrite(Process[r], p)
     /\ \/ /\ archived[p] = "no" /\ holds[p]
           /\ archived' = [archived EXCEPT ![p] = "quarantine"]
           /\ pc' = [pc EXCEPT ![r] = "mark"]
           /\ UNCHANGED current
        \/ /\ archived[p] = "no" /\ ~holds[p]
           /\ current' = [current EXCEPT ![r] = Failed(@)]
           /\ pc' = [pc EXCEPT ![r] = "pending"]
           /\ UNCHANGED archived
        \/ /\ archived[p] # "no"
           /\ pc' = [pc EXCEPT ![r] = "pending"]
           /\ UNCHANGED <<archived, current>>
  /\ UNCHANGED <<server, row, marker, holds, via, todo, ended, faults>>

(* The archive is the quarantine's own: a statement of its own.            *)
Mark(r) ==
  /\ pc[r] = "mark"
  /\ marker' = [marker EXCEPT ![current[r].p] = TRUE]
  /\ pc' = [pc EXCEPT ![r] = "pending"]
  /\ UNCHANGED <<server, row, archived, holds, via, todo, current, ended, faults>>

(* restoreQuarantineOwnedArchive, one transaction.                         *)
\* Faulty variant: the archive is lifted, whoever made it.
RestorableAny(p) == TRUE
Restorable(p) == marker[p]

Restore(r) ==
  /\ pc[r] = "restore"
  /\ LET p == current[r].p IN
       /\ archived' = [archived EXCEPT ![p] = IF Restorable(p) THEN "no" ELSE @]
       /\ marker' = [marker EXCEPT ![p] = FALSE]
  /\ pc' = [pc EXCEPT ![r] = "pending"]
  /\ UNCHANGED <<server, row, holds, via, todo, current, ended, faults>>

(* RecordPendingProjectBlockAck: sql.ErrNoRows unless the row is still of  *)
(* this command and token.  An error ends the drain.                       *)
RecordPending(r) ==
  /\ pc[r] = "pending"
  /\ LET a == current[r] IN
     IF IsOf(a)
       THEN /\ row' = [row EXCEPT ![a.p].pending = TRUE, ![a.p].status = a.status]
            /\ pc' = [pc EXCEPT ![r] = "send"]
            /\ UNCHANGED <<via, todo, current, ended>>
       ELSE End(r, "failed") /\ UNCHANGED row
  /\ UNCHANGED <<server, archived, marker, holds, faults>>

Send(r) ==
  /\ pc[r] = "send"
  /\ IF Accepted(current[r])
       THEN /\ RecordAck(current[r])
            /\ pc' = [pc EXCEPT ![r] = "settle"]
            /\ UNCHANGED <<via, todo, current, ended>>
       ELSE End(r, "failed") /\ UNCHANGED acks
  /\ UNCHANGED <<commands, delivered, device, faults>>

(* RecordProjectBlockAck.  The drain of a refused /sync fails all the same. *)
SettleSent(r) ==
  /\ pc[r] = "settle"
  /\ Settle(current[r])
  /\ IF IsOf(current[r]) /\ via[r] = "inbox"
       THEN /\ pc' = [pc EXCEPT ![r] = "inbox"]
            /\ current' = [current EXCEPT ![r] = NoAck]
            /\ UNCHANGED <<via, todo, ended>>
       ELSE End(r, "failed")
  /\ UNCHANGED <<server, archived, marker, holds, faults>>

-----------------------------------------------------------------------------
Fault == faults < MaxFaults /\ faults' = faults + 1

(* A request lost, or a SQLite error: the drain fails.  One that waits for *)
(* the lifecycle lock cannot even be cancelled.                            *)
Interrupt(r) ==
  /\ Fault
  /\ pc[r] \in Step \ {"idle", "retry", "retried", "archive"}
  /\ End(r, "failed")
  /\ UNCHANGED <<server, device>>

(* The server's answer to an acknowledgement is lost.                      *)
Unheard(r) ==
  /\ Fault
  /\ pc[r] = "send" /\ Accepted(current[r])
  /\ RecordAck(current[r])
  /\ End(r, "failed")
  /\ UNCHANGED <<commands, delivered, device>>

(* Of a resent one, the request or the answer: the drain goes on.          *)
RetryLost(r) ==
  /\ Fault
  /\ pc[r] = "retry"
  /\ \E a \in todo[r] :
       /\ todo' = [todo EXCEPT ![r] = @ \ {a}]
       /\ (Accepted(a) /\ RecordAck(a)) \/ UNCHANGED acks
  /\ UNCHANGED <<commands, delivered, device, pc, via, current, ended>>

Crash(x) ==
  /\ Fault
  /\ \E r \in Drain : Process[r] = x /\ Running(r)
  /\ pc' = [r \in Drain |-> IF Process[r] = x THEN "idle" ELSE pc[r]]
  /\ via' = [r \in Drain |-> IF Process[r] = x THEN "inbox" ELSE via[r]]
  /\ todo' = [r \in Drain |-> IF Process[r] = x THEN {} ELSE todo[r]]
  /\ current' = [r \in Drain |-> IF Process[r] = x THEN NoAck ELSE current[r]]
  /\ UNCHANGED <<server, device, ended>>

(* The user archives a project in the governance UI, or works in one he    *)
(* had nothing of: a project blocked here takes no writes.                 *)
UserArchive(p) ==
  /\ Users /\ holds[p] /\ archived[p] = "no"
  /\ \E r \in Drain : CanWrite(Process[r], p)
  /\ archived' = [archived EXCEPT ![p] = "user"]
  /\ UNCHANGED <<server, row, marker, holds, drains, faults>>

UserWrite(p) ==
  /\ Users /\ ~holds[p] /\ row[p].act # "block"
  /\ holds' = [holds EXCEPT ![p] = TRUE]
  /\ UNCHANGED <<server, row, archived, marker, drains, faults>>

-----------------------------------------------------------------------------
DrainStep(r) ==
  \/ StartDrain(r)
  \/ Retry(r) \/ RetrySettled(r) \/ RetriesDone(r)
  \/ Poll(r) \/ NextCommand(r) \/ Sync(r) \/ HandleBlocked(r)
  \/ ReadRow(r) \/ Archive(r) \/ Mark(r) \/ Restore(r)
  \/ RecordPending(r) \/ Send(r) \/ SettleSent(r)

Next ==
  \/ \E p \in Project : \E act \in Action : BlockProject(p, act)
  \/ \E r \in Drain : DrainStep(r) \/ Interrupt(r) \/ Unheard(r) \/ RetryLost(r)
  \/ \E x \in {Process[r] : r \in Drain} : Crash(x)
  \/ \E p \in Project : UserArchive(p) \/ UserWrite(p)

Spec == Init /\ [][Next]_vars

(* A daemon that is used drains again and again, and a drain that can move *)
(* does.                                                                   *)
Fairness == \A r \in Drain : WF_vars(DrainStep(r))

FairSpec == Spec /\ Fairness

-----------------------------------------------------------------------------
ServerType ==
  /\ commands \in [Project -> Seq(Action)]
  /\ delivered \subseteq Command
  /\ DOMAIN acks = Project
  /\ \A p \in Project : acks[p] \in [1 .. MaxCommands[p] -> AckStatus]

RowType == [gen : Nat, act : Action, real : BOOLEAN, pending : BOOLEAN,
            status : AckStatus]

DeviceType ==
  /\ row \in [Project -> RowType]
  /\ archived \in [Project -> {"no", "quarantine", "user"}]
  /\ marker \in [Project -> BOOLEAN] /\ holds \in [Project -> BOOLEAN]

(* An acknowledgement that goes out has a status.                          *)
DrainsType ==
  /\ pc \in [Drain -> Step] /\ via \in [Drain -> {"inbox", "sync"}]
  /\ todo \in [Drain -> SUBSET Ack] /\ current \in [Drain -> Ack \union {NoAck}]
  /\ \A r \in Drain :
       pc[r] \in {"retried", "pending", "send", "settle"} => current[r].status # "none"
  /\ ended \in [Drain -> {"none", "synced", "failed"}]
  /\ faults \in 0 .. MaxFaults

TypeOK == ServerType /\ DeviceType /\ DrainsType

(* A device that has told the server it applied a command never goes back  *)
(* behind it, whatever inbox an older drain still works through.           *)
AppliedStays ==
  \A p \in Project : \A g \in DOMAIN acks[p] :
    acks[p][g] = "applied" => g <= row[p].gen

(* An archive of the user's own survives every block and unblock.          *)
UserArchiveStays ==
  [][\A p \in Project : archived[p] = "user" => archived'[p] = "user"]_vars

(* distributed-quarantine-lifecycle: once an unblock is acknowledged as    *)
(* applied, what the quarantine archived is restored.                      *)
ReleaseRestores ==
  \A p \in Project : LET g == row[p].gen IN
    g > 0 /\ row[p].act = "unblock" /\ acks[p][g] = "applied"
      => archived[p] # "quarantine"

(* and once a block is, the project is archived.                           *)
BlockArchives ==
  \A p \in Project : LET g == row[p].gen IN
    row[p].act = "block" /\ acks[p][g] = "applied" => archived[p] # "no"

(* syncer_test.go: a drain that meets a block ends, and acknowledges it.   *)
DrainsEnd == \A r \in Drain : pc[r] # "idle" ~> pc[r] = "idle"

(* A drain of a project nobody blocks gets through, again and again.       *)
UnblockedSyncs ==
  \A r \in Drain :
    <>[](~HeadBlocked(Target[r])) => []<>(ended[r] = "synced")

(* Every command that stays the latest is applied and acknowledged.        *)
CommandsSettle ==
  \A p \in Project :
    <>[](Latest(p) > 0 =>
           row[p].gen = Latest(p) /\ acks[p][Latest(p)] # "none")
=============================================================================
