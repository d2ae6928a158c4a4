---------------------------- MODULE MutationSync ----------------------------
(***************************************************************************)
(* Mutation sync of one project: devices that keep memories and a mutation *)
(* journal in SQLite, the hive-daemon processes that sync them (one per    *)
(* MCP client, several over one file), and one hive-api that keeps the     *)
(* shared rows and the shared journal in Postgres.  A daemon pushes the    *)
(* pending mutations of its device and reads everybody else's through the  *)
(* device's cursor.                                                        *)
(*                                                                         *)
(* A memory row is reduced to whether it exists, is active or is a         *)
(* tombstone; a mutation to the device that raised it, its number there,   *)
(* its op and its row.  Local changes are create, delete and restore: the  *)
(* daemon has no operation that raises an update.                          *)
(***************************************************************************)
EXTENDS Naturals, Sequences, FiniteSets

CONSTANTS
  Device,     \* devices that sync the project
  Daemon,     \* hive-daemon processes, and Home[p], the device p runs on
  Home,
  Entity,     \* memories (sync_id)
  MaxOps,     \* MaxOps[d]: bound on the local changes made on device d
  PushPage,   \* syncPageSize: rows and mutations sent in one request
  PullPage,   \* syncMutationPullBatchSize: journal entries in one response
  MaxFaults,  \* bound on lost requests, lost responses, crashes and aborts
  Peers       \* what the server may be at first: "v2", or "legacy", a
              \* hive-api that predates mutations[] and is upgraded later

ASSUME MutationSyncAssumption ==
  /\ Home \in [Daemon -> Device] /\ IsFiniteSet(Daemon)
  /\ MaxOps \in [Device -> Nat]
  /\ PushPage \in Nat \ {0} /\ PullPage \in Nat \ {0}
  /\ MaxFaults \in Nat
  /\ Peers \subseteq {"v2", "legacy"}

VARIABLES
  (* Each device's SQLite file: survives crashes *)
  memories,     \* memories[d][e]: "none", "active" or "deleted"
  unsynced,     \* unsynced[d]: rows with synced_at NULL
  log,          \* log[d]: memory_mutations, in local sequence order
  pending,      \* pending[d]: the mutations of log[d] with synced_at NULL
  accepted,     \* accepted[d], rejected[d]: memory_mutation_outcomes
  rejected,
  unsupported,  \* unsupported[d]: receipts marked legacy_unsupported
  cursor,       \* cursor[d]: the mutation cursor
  present,      \* present[d]: memory_remote_presence
  rowMarks,     \* rowMarks[d]: memory_entity_dispatches, <<request, row>>
  eventMarks,   \* eventMarks[d]: memory_mutation_dispatches
  made,         \* made[d]: how many changes were made on d
  (* Each daemon: one batch of one Drain, lost in a crash *)
  phase, batch, reply,
  (* Requests sent and not yet taken up by the server *)
  wire,
  (* hive-api: its Postgres tables and its open Sync transactions *)
  peer, rows, journal, nextSeq, txs,
  faults        \* faults spent of MaxFaults

store == <<memories, unsynced, log, pending, accepted, rejected, unsupported,
           cursor, present, rowMarks, eventMarks, made>>
process == <<phase, batch, reply>>
server == <<peer, rows, journal, nextSeq, txs>>
vars == <<store, process, wire, server, faults>>

Status == {"none", "active", "deleted"}
Op == {"create", "delete", "restore"}
Mutation == [by : Device, n : Nat \ {0}, op : Op, ent : Entity]
Entry == [seq : Nat \ {0}, mut : Mutation]
RequestNo == 0 .. MaxFaults + Cardinality(Daemon)
Request == [from : Daemon, no : RequestNo, rows : SUBSET Entity,
            muts : SUBSET Mutation, cursor : Nat]
Batch == [no : RequestNo, rows : SUBSET Entity, muts : SUBSET Mutation]
Reply == [v2 : BOOLEAN, rows : SUBSET Entity, page : SUBSET Entry, next : Nat,
          confirmed : SUBSET Mutation, refused : SUBSET Mutation]
Tx == [req : Request, v2 : BOOLEAN, todo : SUBSET Mutation,
       view : [Entity -> Status], staged : SUBSET Entry,
       confirmed : SUBSET Mutation, refused : SUBSET Mutation]
NoBatch == [no |-> 0, rows |-> {}, muts |-> {}]
NoReply == [v2 |-> FALSE, rows |-> {}, page |-> {}, next |-> 0,
            confirmed |-> {}, refused |-> {}]
Phase == {"idle", "read", "wait", "ack", "page", "reject", "confirm"}

Logged(d) == {log[d][i] : i \in DOMAIN log[d]}
Position(d, m) == CHOOSE i \in DOMAIN log[d] : log[d][i] = m
ActiveUnsynced(d) == {e \in unsynced[d] : memories[d][e] = "active"}
AtMost(limit, S) == IF Cardinality(S) < limit THEN Cardinality(S) ELSE limit

(* The rows this device saved itself: memory_local_origins.                *)
LocalOrigin(d) == {m.ent : m \in {k \in Logged(d) : k.by = d /\ k.op = "create"}}

(* insertMemoryMutation appends to the local journal.                      *)
\* Faulty variant: the journal row is not written.
InsertDropped(l, m) == l
Insert(l, m) == Append(l, m)

Effect(m) == IF m.op = "delete" THEN "deleted" ELSE "active"

Init ==
  /\ memories = [d \in Device |-> [e \in Entity |-> "none"]]
  /\ unsynced = [d \in Device |-> {}]
  /\ log = [d \in Device |-> <<>>]
  /\ pending = [d \in Device |-> {}]
  /\ accepted = [d \in Device |-> {}]
  /\ rejected = [d \in Device |-> {}]
  /\ unsupported = [d \in Device |-> {}]
  /\ cursor = [d \in Device |-> 0]
  /\ present = [d \in Device |-> {}]
  /\ rowMarks = [d \in Device |-> {}]
  /\ eventMarks = [d \in Device |-> {}]
  /\ made = [d \in Device |-> 0]
  /\ phase = [p \in Daemon |-> "idle"]
  /\ batch = [p \in Daemon |-> NoBatch]
  /\ reply = [p \in Daemon |-> NoReply]
  /\ wire = {}
  /\ peer \in Peers
  /\ rows = [e \in Entity |-> "none"]
  /\ journal = {}
  /\ nextSeq = 1
  /\ txs = {}
  /\ faults = 0

-----------------------------------------------------------------------------
(* Local changes, from MCP tools and the governance API.  Each is one      *)
(* SQLite transaction that changes the row, clears its synced_at and       *)
(* journals the mutation; they interleave with a batch in any phase.       *)

Change(d, e, op) ==
  LET m == [by |-> d, n |-> made[d] + 1, op |-> op, ent |-> e] IN
  /\ made[d] < MaxOps[d]
  /\ made' = [made EXCEPT ![d] = @ + 1]
  /\ memories' = [memories EXCEPT ![d][e] = Effect(m)]
  /\ unsynced' = [unsynced EXCEPT ![d] = @ \union {e}]
  /\ log' = [log EXCEPT ![d] = Insert(@, m)]
  /\ pending' = [pending EXCEPT ![d] = @ \union {m}]
  /\ UNCHANGED <<accepted, rejected, unsupported, cursor, present, rowMarks,
                 eventMarks, process, wire, server, faults>>

(* A save takes a sync_id nobody has: a random UUID.                       *)
Save(d, e) ==
  /\ \A o \in Device : e \notin LocalOrigin(o)
  /\ Change(d, e, "create")

Delete(d, e) == memories[d][e] = "active" /\ Change(d, e, "delete")

Restore(d, e) == memories[d][e] = "deleted" /\ Change(d, e, "restore")

-----------------------------------------------------------------------------
(* One batch of a Drain, by daemon p.  A daemon is single-flight: its next *)
(* batch begins when this one is over.  Nothing keeps two daemons of one   *)
(* device apart but SQLite's transactions, one per action.                 *)

(* GetUnsyncedPage.  The page is any of the right size: the order of       *)
(* created_at, which need not be the journal's, is left out.               *)
ReadRows(p) ==
  LET d == Home[p] IN
  /\ phase[p] = "idle"
  /\ \E R \in SUBSET ActiveUnsynced(d) :
       /\ Cardinality(R) = AtMost(PushPage, ActiveUnsynced(d))
       /\ batch' = [batch EXCEPT ![p] = [no |-> 0, rows |-> R, muts |-> {}]]
  /\ phase' = [phase EXCEPT ![p] = "read"]
  /\ UNCHANGED <<store, reply, wire, server, faults>>

(* MarkMutationsDispatched is durable before the request leaves.           *)
\* Faulty variant: the request leaves before its mutations are marked.
UnmarkedEvents(d, P) == eventMarks[d]
MarkedEvents(d, P) == eventMarks[d] \union P

Requests(d) == {r \in wire \union {t.req : t \in txs} : Home[r.from] = d}

(* A dispatch id is a UUID: here, a number that nothing of this device     *)
(* still uses, neither a request, nor a mark, nor a batch under way.       *)
Dispatched(d) == {p \in Daemon : Home[p] = d /\ phase[p] \notin {"idle", "read"}}

FreshNo(d) ==
  RequestNo \ ({r.no : r \in Requests(d)} \union {k[1] : k \in rowMarks[d]}
                \union {batch[p].no : p \in Dispatched(d)})

(* GetPendingMutations: the first page of them in local sequence order.    *)
IsPushPage(P, d) ==
  /\ Cardinality(P) = AtMost(PushPage, pending[d])
  /\ \A p \in P, q \in pending[d] \ P : Position(d, p) < Position(d, q)

(* GetPendingMutations and GetMutationCursor, the two dispatch marks, and  *)
(* only then the request.                                                  *)
Dispatch(p) ==
  LET d == Home[p] IN
  /\ phase[p] = "read"
  /\ \E P \in SUBSET pending[d], no \in FreshNo(d) :
       /\ IsPushPage(P, d)
       /\ \A k \in FreshNo(d) : no <= k
       /\ batch' = [batch EXCEPT ![p] = [no |-> no, rows |-> @.rows, muts |-> P]]
       /\ rowMarks' = [rowMarks EXCEPT ![d] = @ \union ({no} \X batch[p].rows)]
       /\ eventMarks' = [eventMarks EXCEPT ![d] = MarkedEvents(d, P)]
       /\ wire' = wire \union {[from |-> p, no |-> no, rows |-> batch[p].rows,
                                muts |-> P, cursor |-> cursor[d]]}
  /\ phase' = [phase EXCEPT ![p] = "wait"]
  /\ UNCHANGED <<memories, unsynced, log, pending, accepted, rejected,
                 unsupported, cursor, present, made, reply, server, faults>>

Finish(p) ==
  /\ phase' = [phase EXCEPT ![p] = "idle"]
  /\ batch' = [batch EXCEPT ![p] = NoBatch]
  /\ reply' = [reply EXCEPT ![p] = NoReply]

(* The batch fails where it stands: a timeout, a lost response, a SQLite   *)
(* error, or a crash and restart.  What was written stays written, and the *)
(* request, if one is out, may still reach the server.                     *)
Interrupt(p) ==
  /\ phase[p] # "idle" /\ faults < MaxFaults
  /\ faults' = faults + 1
  /\ Finish(p)
  /\ UNCHANGED <<store, wire, server>>

(* Without a compatibility_mode, or with row-state, the response answers   *)
(* memories[]; with mutation-sync-v2 it answers mutations[] and no row.    *)
RowsAnswered(p) == ~reply[p].v2

(* What a mutation-v2 response settles first: the server ignored memories[] *)
(* of exactly this request, so its marks go and its rows stay unsynced.    *)
ResolveRows(p) ==
  LET d == Home[p] IN
  /\ phase[p] = "ack" /\ ~RowsAnswered(p) /\ batch[p].rows # {}
  /\ rowMarks' = [rowMarks EXCEPT ![d] = {k \in @ : k[1] # batch[p].no}]
  /\ batch' = [batch EXCEPT ![p].rows = {}]
  /\ UNCHANGED <<memories, unsynced, log, pending, accepted, rejected,
                 unsupported, cursor, present, eventMarks, made, phase, reply,
                 wire, server, faults>>

(* Only guarded local deletes and restores have a receipt.                 *)
Guarded(d, M) == {m \in M : m.by = d /\ m.op # "create"}

(* A row-state response: receipts of mutations that went unheard, then     *)
(* each row in a transaction of its own.                                   *)
\* Faulty variant: what a row-state response did not refuse is done.
MarkUnheardDone(p) ==
  LET d == Home[p] IN
  /\ phase[p] = "ack" /\ RowsAnswered(p)
  /\ pending' = [pending EXCEPT ![d] = @ \ Guarded(d, batch[p].muts)]
  /\ UNCHANGED <<memories, unsynced, log, accepted, rejected, unsupported,
                 cursor, present, rowMarks, eventMarks, made, process, wire,
                 server, faults>>
MarkUnsupported(p) ==
  LET d == Home[p] IN
  /\ phase[p] = "ack" /\ RowsAnswered(p)
  /\ ~(Guarded(d, batch[p].muts) \subseteq unsupported[d])
  /\ unsupported' = [unsupported EXCEPT ![d] = @ \union Guarded(d, batch[p].muts)]
  /\ UNCHANGED <<memories, unsynced, log, pending, accepted, rejected, cursor,
                 present, rowMarks, eventMarks, made, process, wire, server,
                 faults>>

MarkSynced(p, e) ==
  LET d == Home[p] IN
  /\ phase[p] = "ack" /\ RowsAnswered(p)
  /\ Guarded(d, batch[p].muts) \subseteq unsupported[d]
  /\ e \in batch[p].rows
  /\ unsynced' = [unsynced EXCEPT ![d] = @ \ {e}]
  /\ present' = [present EXCEPT ![d] = @ \union {e}]
  /\ rowMarks' = [rowMarks EXCEPT ![d] = {k \in @ : k[2] # e}]
  /\ batch' = [batch EXCEPT ![p].rows = @ \ {e}]
  /\ UNCHANGED <<memories, log, pending, accepted, rejected, unsupported,
                 cursor, eventMarks, made, phase, reply, wire, server, faults>>

(* SaveFromRemote of the row channel: INSERT OR IGNORE, so a row already   *)
(* here is left alone.  Which of the server's active rows arrive depends   *)
(* on the pull window and on errors that are only logged: any may.  A      *)
(* row-state batch ends here.                                              *)
SavePulled(p) ==
  LET d == Home[p] IN
  /\ phase[p] = "ack" /\ batch[p].rows = {}
  /\ RowsAnswered(p) => Guarded(d, batch[p].muts) \subseteq unsupported[d]
  /\ \E S \in SUBSET reply[p].rows :
       /\ memories' = [memories EXCEPT ![d] =
            [e \in Entity |-> IF e \in S /\ @[e] = "none" THEN "active" ELSE @[e]]]
       /\ present' = [present EXCEPT ![d] = @ \union S]
  /\ IF reply[p].v2
       THEN phase' = [phase EXCEPT ![p] = "page"] /\ UNCHANGED <<batch, reply>>
       ELSE Finish(p)
  /\ UNCHANGED <<unsynced, log, pending, accepted, rejected, unsupported,
                 cursor, rowMarks, eventMarks, made, wire, server, faults>>

-----------------------------------------------------------------------------
(* ApplyRemoteMutation, entry by entry in sequence order.                  *)

IsFirst(x, page) == x \in page /\ \A y \in page : x.seq <= y.seq

Applicable(d, m) ==
  \/ m.op = "create"
  \/ m.op = "delete" /\ memories[d][m.ent] # "none"
  \/ m.op = "restore" /\ memories[d][m.ent] = "deleted"

(* A create upserts the row's content and leaves a tombstone in place.     *)
RemoteStatus(old, m) ==
  IF m.op = "create" THEN (IF old = "none" THEN "active" ELSE old) ELSE Effect(m)

SkipKnown(p) ==
  LET d == Home[p] IN
  /\ phase[p] = "page"
  /\ \E x \in reply[p].page :
       /\ IsFirst(x, reply[p].page) /\ x.mut \in Logged(d)
       /\ reply' = [reply EXCEPT ![p].page = @ \ {x}]
  /\ UNCHANGED <<store, phase, batch, wire, server, faults>>

(* The entry is journaled here with its outcome, but insertMemoryMutation  *)
(* leaves synced_at NULL: it joins the pending mutations and is sent back. *)
ApplyRemote(p) ==
  LET d == Home[p] IN
  /\ phase[p] = "page"
  /\ \E x \in reply[p].page :
       /\ IsFirst(x, reply[p].page) /\ x.mut \notin Logged(d)
       /\ Applicable(d, x.mut)
       /\ memories' = [memories EXCEPT ![d][x.mut.ent] = RemoteStatus(@, x.mut)]
       /\ unsynced' = [unsynced EXCEPT ![d] = @ \ {x.mut.ent}]
       /\ log' = [log EXCEPT ![d] = Insert(@, x.mut)]
       /\ pending' = [pending EXCEPT ![d] = @ \union {x.mut}]
       /\ accepted' = [accepted EXCEPT ![d] = @ \union {x.mut}]
       /\ present' = [present EXCEPT ![d] = @ \union {x.mut.ent}]
       /\ reply' = [reply EXCEPT ![p].page = @ \ {x}]
  /\ UNCHANGED <<rejected, unsupported, cursor, rowMarks, eventMarks, made,
                 phase, batch, wire, server, faults>>

(* An entry that does not apply fails the batch before the cursor moves    *)
(* and before anything pushed is acknowledged.                             *)
AbortOnRemote(p) ==
  LET d == Home[p] IN
  /\ phase[p] = "page"
  /\ \E x \in reply[p].page :
       /\ IsFirst(x, reply[p].page) /\ x.mut \notin Logged(d)
       /\ ~Applicable(d, x.mut)
  /\ Finish(p)
  /\ UNCHANGED <<store, wire, server, faults>>

SetCursor(p) ==
  LET d == Home[p] IN
  /\ phase[p] = "page" /\ reply[p].page = {}
  /\ cursor' = [cursor EXCEPT ![d] = reply[p].next]
  /\ phase' = [phase EXCEPT ![p] = "reject"]
  /\ UNCHANGED <<memories, unsynced, log, pending, accepted, rejected,
                 unsupported, present, rowMarks, eventMarks, made, batch, reply,
                 wire, server, faults>>

MarkRejected(p) ==
  LET d == Home[p] IN
  /\ phase[p] = "reject"
  /\ pending' = [pending EXCEPT ![d] = @ \ reply[p].refused]
  /\ rejected' = [rejected EXCEPT ![d] = @ \union reply[p].refused]
  /\ accepted' = [accepted EXCEPT ![d] = @ \ reply[p].refused]
  /\ phase' = [phase EXCEPT ![p] = "confirm"]
  /\ UNCHANGED <<memories, unsynced, log, unsupported, cursor, present, rowMarks,
                 eventMarks, made, batch, reply, wire, server, faults>>

(* The results the server marked applied or duplicate.                     *)
Confirmed(p) == reply[p].confirmed

(* Rows acknowledged with the mutations: those of creates only.            *)
ConfirmedRows(p) == {m.ent : m \in {k \in Confirmed(p) : k.op = "create"}}

MarkConfirmed(p) ==
  LET d == Home[p] IN
  /\ phase[p] = "confirm"
  /\ pending' = [pending EXCEPT ![d] = @ \ Confirmed(p)]
  /\ accepted' = [accepted EXCEPT ![d] = @ \union Confirmed(p)]
  /\ rejected' = [rejected EXCEPT ![d] = @ \ Confirmed(p)]
  /\ present' = [present EXCEPT ![d] = @ \union {m.ent : m \in Confirmed(p)}]
  /\ unsynced' = [unsynced EXCEPT ![d] = @ \ ConfirmedRows(p)]
  /\ rowMarks' = [rowMarks EXCEPT ![d] = {k \in @ : k[2] \notin ConfirmedRows(p)}]
  /\ Finish(p)
  /\ UNCHANGED <<memories, log, unsupported, cursor, eventMarks, made, wire,
                 server, faults>>

-----------------------------------------------------------------------------
(* hive-api.  A request is one READ COMMITTED transaction under the        *)
(* project's advisory lock, held from before the first write to the end.   *)

\* Faulty variant: no advisory lock.
NoKeyLock == TRUE
KeyLockFree == txs = {}

(* mutationProtocolAuthoritative                                           *)
Authoritative(r) == peer = "v2" /\ r.muts # {}

(* memories[] of a row-state request: insert what is missing.  An existing *)
(* row may take newer content and keeps its tombstone.                     *)
\* Faulty variant: the upsert clears deleted_at.
UpsertedRestoring(old, R) ==
  [e \in Entity |-> IF e \in R THEN "active" ELSE old[e]]
Upserted(old, R) ==
  [e \in Entity |-> IF e \in R /\ old[e] = "none" THEN "active" ELSE old[e]]

(* A tx record: what the transaction sees of the rows (view), what it has  *)
(* journaled (staged), and the mutations still to apply (todo).            *)
Begin(r) ==
  /\ r \in wire /\ KeyLockFree
  /\ wire' = wire \ {r}
  /\ txs' = txs \union
       {[req |-> r, v2 |-> Authoritative(r),
         todo |-> IF Authoritative(r) THEN r.muts ELSE {},
         view |-> IF Authoritative(r) THEN rows ELSE Upserted(rows, r.rows),
         staged |-> {}, confirmed |-> {}, refused |-> {}]}
  /\ UNCHANGED <<store, process, peer, rows, journal, nextSeq, faults>>

Muts(J) == {x.mut : x \in J}

(* The request lists its mutations in the sender's journal order.          *)
IsNextOf(t, m) ==
  /\ m \in t.todo
  /\ LET d == Home[t.req.from] IN
       \A k \in t.todo : Position(d, m) <= Position(d, k)

IsExistingCreate(t, m) == m.op = "create" /\ t.view[m.ent] # "none"
\* Faulty variant: no look-up by event_id.
IsUnseenDuplicate(t, m) == IsExistingCreate(t, m)
IsDuplicate(t, m) ==
  \/ m \in Muts(journal \union t.staged)
  \/ IsExistingCreate(t, m)

(* ErrNotFound: nothing to delete, nothing deleted to restore.  A delete   *)
(* of a tombstone rewrites it and is journaled.                            *)
IsRefused(t, m) ==
  /\ ~IsDuplicate(t, m)
  /\ \/ m.op = "delete" /\ t.view[m.ent] = "none"
     \/ m.op = "restore" /\ t.view[m.ent] # "deleted"

\* Faulty variant: a duplicate goes unanswered.
DuplicateUnflagged(t, m) ==
  /\ IsNextOf(t, m) /\ IsDuplicate(t, m)
  /\ txs' = (txs \ {t}) \union {[t EXCEPT !.todo = @ \ {m}]}
  /\ UNCHANGED <<store, process, wire, peer, rows, journal, nextSeq, faults>>
Duplicate(t, m) ==
  /\ IsNextOf(t, m) /\ IsDuplicate(t, m)
  /\ txs' = (txs \ {t}) \union
       {[t EXCEPT !.todo = @ \ {m}, !.confirmed = @ \union {m}]}
  /\ UNCHANGED <<store, process, wire, peer, rows, journal, nextSeq, faults>>

Refuse(t, m) ==
  /\ IsNextOf(t, m) /\ IsRefused(t, m)
  /\ txs' = (txs \ {t}) \union
       {[t EXCEPT !.todo = @ \ {m}, !.refused = @ \union {m}]}
  /\ UNCHANGED <<store, process, wire, peer, rows, journal, nextSeq, faults>>

(* The sequence is a bigserial: taken now, kept even if the tx aborts.     *)
Apply(t, m) ==
  /\ IsNextOf(t, m) /\ ~IsDuplicate(t, m) /\ ~IsRefused(t, m)
  /\ txs' = (txs \ {t}) \union
       {[t EXCEPT !.todo = @ \ {m}, !.confirmed = @ \union {m},
                  !.view = [@ EXCEPT ![m.ent] = Effect(m)],
                  !.staged = @ \union {[seq |-> nextSeq, mut |-> m]}]}
  /\ nextSeq' = nextSeq + 1
  /\ UNCHANGED <<store, process, wire, peer, rows, journal, faults>>

After(J, c) == {x \in J : c < x.seq}

(* The journal page of a response and the cursor that goes with it.        *)
\* Faulty variant: no ORDER BY sequence.
IsUnorderedPage(page, J, c) ==
  Cardinality(page) = AtMost(PullPage, After(J, c))
IsJournalPage(page, J, c) ==
  /\ Cardinality(page) = AtMost(PullPage, After(J, c))
  /\ \A x \in page, y \in After(J, c) \ page : x.seq < y.seq

IsNextCursor(next, page, c) ==
  IF page = {} THEN next = c
               ELSE \E x \in page : next = x.seq /\ \A y \in page : y.seq <= x.seq

Awaited(r) == phase[r.from] = "wait" /\ batch[r.from].no = r.no

Respond(r, answer) ==
  IF Awaited(r)
    THEN /\ reply' = [reply EXCEPT ![r.from] = answer]
         /\ phase' = [phase EXCEPT ![r.from] = "ack"]
    ELSE UNCHANGED <<reply, phase>>

(* The journal is listed inside the transaction, so it shows its own       *)
(* entries and those committed before.                                     *)
Commit(t) ==
  LET listed == IF t.v2 THEN journal \union t.staged ELSE {}
      seen == {e \in Entity : t.view[e] = "active"} IN
  /\ t.todo = {}
  /\ txs' = txs \ {t}
  /\ rows' = t.view
  /\ journal' = journal \union t.staged
  /\ \E page \in SUBSET After(listed, t.req.cursor) :
     \E next \in {0, t.req.cursor} \union {x.seq : x \in listed} :
       /\ IsJournalPage(page, listed, t.req.cursor)
       /\ IsNextCursor(next, page, t.req.cursor)
       /\ Respond(t.req, [v2 |-> t.v2, rows |-> seen \ t.req.rows, page |-> page,
                          next |-> next, confirmed |-> t.confirmed,
                          refused |-> t.refused])
  /\ UNCHANGED <<store, batch, wire, peer, nextSeq, faults>>

(* The transaction fails and rolls back; a daemon still waiting sees an    *)
(* HTTP error and ends its batch.                                          *)
\* Faulty variant: the error of the commit goes unnoticed.
AbortAnswered(t) ==
  /\ faults < MaxFaults /\ faults' = faults + 1
  /\ txs' = txs \ {t}
  /\ Respond(t.req, [v2 |-> t.v2, rows |-> {}, page |-> {}, next |-> t.req.cursor,
                     confirmed |-> t.confirmed, refused |-> t.refused])
  /\ UNCHANGED <<store, batch, wire, peer, rows, journal, nextSeq>>
Abort(t) ==
  /\ faults < MaxFaults /\ faults' = faults + 1
  /\ txs' = txs \ {t}
  /\ IF Awaited(t.req) THEN Finish(t.req.from) ELSE UNCHANGED process
  /\ UNCHANGED <<store, wire, peer, rows, journal, nextSeq>>

(* A request nobody waits for any more is lost, or is refused by the lock. *)
Drop(r) ==
  /\ r \in wire /\ ~Awaited(r)
  /\ wire' = wire \ {r}
  /\ UNCHANGED <<store, process, server, faults>>

(* The hive-api deployment moves to a build that knows mutations[].        *)
Upgrade ==
  /\ peer = "legacy" /\ txs = {}
  /\ peer' = "v2"
  /\ UNCHANGED <<store, process, wire, rows, journal, nextSeq, txs, faults>>

-----------------------------------------------------------------------------
BatchStep(p) ==
  \/ ReadRows(p)
  \/ Dispatch(p)
  \/ ResolveRows(p)
  \/ MarkUnsupported(p)
  \/ \E e \in Entity : MarkSynced(p, e)
  \/ SavePulled(p)
  \/ SkipKnown(p)
  \/ ApplyRemote(p)
  \/ AbortOnRemote(p)
  \/ SetCursor(p)
  \/ MarkRejected(p)
  \/ MarkConfirmed(p)

TxStep(t) ==
  \/ \E m \in t.todo : Duplicate(t, m) \/ Refuse(t, m) \/ Apply(t, m)
  \/ Commit(t)

Next ==
  \/ \E d \in Device, e \in Entity : Save(d, e) \/ Delete(d, e) \/ Restore(d, e)
  \/ \E p \in Daemon : BatchStep(p) \/ Interrupt(p)
  \/ \E r \in wire : Begin(r) \/ Drop(r)
  \/ \E t \in txs : TxStep(t) \/ Abort(t)
  \/ Upgrade

Spec == Init /\ [][Next]_vars

(* Every daemon runs a batch for the project over and over, and the server *)
(* works on what it has begun.  A daemon's request is taken up eventually: *)
(* the advisory lock is not a queue, so this leaves out a daemon that      *)
(* loses the race for the lock every time.                                 *)
Fairness ==
  /\ \A p \in Daemon :
       /\ WF_vars(BatchStep(p))
       /\ SF_vars(\E r \in wire : r.from = p /\ Begin(r))
  /\ WF_vars(\E t \in txs : TxStep(t))

FairSpec == Spec /\ Fairness

-----------------------------------------------------------------------------
StoreType ==
  /\ memories \in [Device -> [Entity -> Status]]
  /\ unsynced \in [Device -> SUBSET Entity]
  /\ log \in [Device -> Seq(Mutation)]
  /\ pending \in [Device -> SUBSET Mutation]
  /\ accepted \in [Device -> SUBSET Mutation]
  /\ rejected \in [Device -> SUBSET Mutation]
  /\ unsupported \in [Device -> SUBSET Mutation]
  /\ cursor \in [Device -> Nat]
  /\ present \in [Device -> SUBSET Entity]
  /\ rowMarks \in [Device -> SUBSET (RequestNo \X Entity)]
  /\ eventMarks \in [Device -> SUBSET Mutation]
  /\ made \in [Device -> Nat]

ProcessType ==
  /\ phase \in [Daemon -> Phase]
  /\ batch \in [Daemon -> Batch]
  /\ reply \in [Daemon -> Reply]

ServerType ==
  /\ wire \subseteq Request
  /\ peer \in {"v2", "legacy"}
  /\ rows \in [Entity -> Status]
  /\ journal \subseteq Entry
  /\ nextSeq \in Nat \ {0}
  /\ txs \subseteq Tx
  /\ faults \in 0 .. MaxFaults

(* What a device marks, and what it sent, is in its own journal.           *)
MarksAreLogged ==
  /\ \A d \in Device :
       /\ pending[d] \subseteq Logged(d)
       /\ accepted[d] \subseteq Logged(d) /\ rejected[d] \subseteq Logged(d)
       /\ unsupported[d] \subseteq Logged(d) /\ eventMarks[d] \subseteq Logged(d)
  /\ \A p \in Daemon : batch[p].muts \subseteq Logged(Home[p])

TypeOK == StoreType /\ ProcessType /\ ServerType /\ MarksAreLogged

(* A mutation is journaled once, however often it is sent: a resend after  *)
(* a lost response, a late duplicate of a timed-out request, or the echo   *)
(* every receiver sends of what it pulled.                                 *)
JournalOnce == \A x, y \in journal : x.mut = y.mut => x = y

(* A cursor never passes an entry its device does not hold: sequences are  *)
(* taken before they commit, and only the advisory lock makes the order of *)
(* commits the order of sequences.                                         *)
CursorNoGap ==
  \A d \in Device : \A x \in journal : x.seq <= cursor[d] => x.mut \in Logged(d)

(* Replaying the journal gives the server's rows: no path, the row-state   *)
(* one included, brings a deleted row back or changes one unjournaled.     *)
IsLast(x) == \A y \in journal : y.mut.ent = x.mut.ent => y.seq <= x.seq

RowsFollowJournal ==
  \A x \in journal : IsLast(x) => rows[x.mut.ent] = Effect(x.mut)

(* A row a device holds as synced is on the server: a mutation-v2 response *)
(* must not acknowledge the memories[] it ignored.                         *)
SyncedRowsAreShared ==
  \A d \in Device, e \in Entity :
    memories[d][e] # "none" /\ e \notin unsynced[d] => rows[e] # "none"

(* MutationReceipt's shared status of a guarded change.                    *)
SharedStatus(d, m) ==
  IF m \in unsupported[d] THEN "legacy_unsupported"
  ELSE IF m \in rejected[d] THEN "failed"
  ELSE IF m \in pending[d] THEN "pending"
  ELSE "completed"

(* A receipt that reads completed is of a change everybody can pull.       *)
CompletedMeansShared ==
  \A d \in Device : \A m \in Guarded(d, Logged(d)) :
    SharedStatus(d, m) = "completed" => m \in Muts(journal)

(* What a project promotion asks of the evidence: a row saved here that it *)
(* would take for one the server never had (no presence, no entity mark,   *)
(* create never dispatched or rejected) is not on the server.              *)
NeverSent(d, e) ==
  /\ e \in LocalOrigin(d) /\ e \notin present[d]
  /\ \A k \in rowMarks[d] : k[2] # e
  /\ LET creates == {m \in Logged(d) : m.op = "create" /\ m.ent = e} IN
       creates \intersect eventMarks[d] = {} \/ creates \intersect rejected[d] # {}

EvidenceIsSound ==
  \A d \in Device, e \in Entity : NeverSent(d, e) => rows[e] = "none"

(* The entry that ends every batch of d: the first it has not recorded and *)
(* cannot apply.                                                           *)
Blocking(d, x) ==
  /\ x \in After(journal, cursor[d]) /\ x.mut \notin Logged(d)
  /\ ~Applicable(d, x.mut)
  /\ \A y \in After(journal, cursor[d]) : y.seq < x.seq => y.mut \in Logged(d)

Blocked(d) == \E x \in journal : Blocking(d, x)

Drained(d) == pending[d] = {} /\ ActiveUnsynced(d) = {}

(* Once local changes and faults stop, every device gets all it has to the *)
(* server and acknowledged, or stands forever before an entry it cannot    *)
(* apply.                                                                  *)
DrainsUnlessBlocked == \A d \in Device : <>[](Drained(d) \/ Blocked(d))

(* syncer_test.go:2363 and sync.go:1158: no one event stops a device from  *)
(* getting its own changes acknowledged or from receiving the others'.     *)
NoEventBlocks == \A d \in Device : <>[]Drained(d)

(* local-memory-guide.md:54: a change whose receipt reads failed will be   *)
(* sent again by the daemon.                                               *)
FailedIsRetried ==
  \A d \in Device : \A m \in Guarded(d, Logged(d)) :
    SharedStatus(d, m) = "failed" => m \in pending[d]

(* Mutation sync implements the shared journal.                            *)
SJ == INSTANCE SharedJournal
        WITH read <- cursor, known <- [d \in Device |-> Logged(d)]
ImplementsSharedJournal == SJ!Spec
=============================================================================
