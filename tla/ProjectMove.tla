---------------------------- MODULE ProjectMove ----------------------------
(***************************************************************************)
(* Sessions, and the promotion of a project: one device that knows a       *)
(* project as A, works in one session of it, and may be told to promote A  *)
(* into B.  The promotion rewrites the device's rows at once and leaves    *)
(* the server's to later pushes: a session carries the project it comes    *)
(* from, a memory the server holds gets a reproject mutation.              *)
(*                                                                         *)
(* The daemons of the device push under a lease that only their own        *)
(* process honours.  A batch sends unshared sessions alone; memories and   *)
(* mutations wait until none is left.                                      *)
(*                                                                         *)
(* Another device, prompts, the journal pages and the rows that come back  *)
(* are left out, but for what a pulled row tells of this device's own.     *)
(***************************************************************************)
EXTENDS Naturals, FiniteSets

CONSTANTS
  Daemon,     \* hive-daemon processes of the device
  Memory,     \* memories of the session
  PushPage,   \* syncPageSize
  MaxOps,     \* bound on the local changes
  MaxFaults   \* bound on failed reads, interrupted batches and crashes

Lost == "lost"   \* in place of the daemon: nobody waits for the answer

ASSUME ProjectMoveAssumption ==
  /\ IsFiniteSet(Daemon) /\ IsFiniteSet(Memory) /\ Lost \notin Daemon
  /\ PushPage \in Nat \ {0} /\ MaxOps \in Nat /\ MaxFaults \in Nat

VARIABLES
  (* The device's SQLite file                                              *)
  home,           \* the project its rows are in: "A", then "B"
  session,        \* the session: its state, sync_from_project, synced_at
  memories,       \* memories[m]: "none", "active" or "deleted"
  unsynced,       \* memories with synced_at NULL
  pending,        \* memory_mutations with synced_at NULL
  rejected,       \* memory_mutation_outcomes: rejected
  present,        \* memory_remote_presence
  rowMarks,       \* memory_entity_dispatches: <<the request's daemon, memory>>
  sent,           \* memories whose create is in memory_mutation_dispatches
  made,           \* local changes so far
  (* Each daemon: its Drain, and what it learned of the server             *)
  phase, lease, batch, reply, knows,
  (* Requests not yet served, and hive-api's tables                        *)
  wire, remoteSession, remote, seen,
  faults

evidence == <<rejected, present, rowMarks, sent>>
device == <<home, session, memories, unsynced, pending, evidence, made>>
process == <<phase, lease, batch, reply, knows>>
server == <<remoteSession, remote, seen>>
vars == <<device, process, wire, server, faults>>

Project == {"A", "B"}
Session == [state : {"none", "open", "ended"}, from : {"", "A"}, synced : BOOLEAN]
NoSession == [state |-> "none", from |-> "", synced |-> FALSE]
Mutation == [op : {"create", "delete", "restore", "reproject"}, mem : Memory,
             n : 0 .. MaxOps, project : Project]
Event == {"create", "delete", "restore", "reproject"} \X Memory \X (0 .. MaxOps)
Id(e) == <<e.op, e.mem, e.n>>
Batch == [session : Session, rows : SUBSET Memory, muts : SUBSET Mutation]
NoBatch == [session |-> NoSession, rows |-> {}, muts |-> {}]
Request == [from : Daemon \union {Lost}, project : Project, session : Session,
            rows : SUBSET Memory, muts : SUBSET Mutation]
Reply == [v2 : BOOLEAN, confirmed : SUBSET Mutation, refused : SUBSET Mutation,
          pulled : SUBSET Memory]
NoReply == [v2 |-> FALSE, confirmed |-> {}, refused |-> {}, pulled |-> {}]
Row == [state : {"none", "active", "deleted"}, project : Project \union {""}]
Phase == {"idle", "sessions", "rows", "mutations", "wait", "ack", "reject",
          "confirm", "between"}

Init ==
  /\ home = "A" /\ session = NoSession
  /\ memories = [m \in Memory |-> "none"]
  /\ unsynced = {} /\ pending = {} /\ rejected = {} /\ present = {}
  /\ rowMarks = {} /\ sent = {} /\ made = 0
  /\ phase = [p \in Daemon |-> "idle"]
  /\ lease = [p \in Daemon |-> ""]
  /\ batch = [p \in Daemon |-> NoBatch]
  /\ reply = [p \in Daemon |-> NoReply]
  /\ knows = [p \in Daemon |-> FALSE]
  /\ wire = {}
  /\ remoteSession = [state |-> "none", project |-> ""]
  /\ remote = [m \in Memory |-> [state |-> "none", project |-> ""]]
  /\ seen = {}
  /\ faults = 0

-----------------------------------------------------------------------------
(* Local changes: one SQLite transaction each, at any point of a batch.    *)

LocalChange ==
  /\ made < MaxOps /\ made' = made + 1
  /\ UNCHANGED <<home, evidence, process, wire, server, faults>>

Journal(op, m) ==
  pending' = pending \union {[op |-> op, mem |-> m, n |-> made + 1, project |-> home]}

(* ensureSessionInTx: creates the session, or reopens it for the write.    *)
Ensured(s) ==
  IF s.state = "open" THEN s ELSE [s EXCEPT !.state = "open", !.synced = FALSE]

Save(m) ==
  /\ memories[m] = "none"
  /\ LocalChange /\ Journal("create", m)
  /\ session' = Ensured(session)
  /\ memories' = [memories EXCEPT ![m] = "active"]
  /\ unsynced' = unsynced \union {m}

Delete(m) ==
  /\ memories[m] = "active"
  /\ LocalChange /\ Journal("delete", m)
  /\ memories' = [memories EXCEPT ![m] = "deleted"]
  /\ unsynced' = unsynced \union {m}
  /\ UNCHANGED session

Restore(m) ==
  /\ memories[m] = "deleted"
  /\ LocalChange /\ Journal("restore", m)
  /\ memories' = [memories EXCEPT ![m] = "active"]
  /\ unsynced' = unsynced \union {m}
  /\ UNCHANGED session

(* EnsureAndEndSession                                                     *)
EndSession ==
  /\ session.state # "ended"
  /\ LocalChange
  /\ session' = [session EXCEPT !.state = "ended", !.synced = FALSE]
  /\ UNCHANGED <<memories, unsynced, pending>>

-----------------------------------------------------------------------------
(* Promotion: one transaction, under a write lock of this process that     *)
(* waits for the process's own Drain.                                      *)

Saved == {m \in Memory : memories[m] # "none"}
Dispatched == {k[2] : k \in rowMarks}
CreateRejected == {e.mem : e \in {k \in rejected : k.op = "create"}}

\* Faulty variant: a create that crossed the network unanswered is not counted.
AmbiguousByRow(m) == m \in (Saved \ present) \cap Dispatched

(* Neither known to be at the server nor known not to be.  A create that   *)
(* crossed the network unanswered may have arrived.                        *)
Ambiguous(m) ==
  /\ m \in Saved \ present
  /\ m \in Dispatched \/ m \in sent \ CreateRejected

Reproject(m) == [op |-> "reproject", mem |-> m, n |-> 0, project |-> "B"]

\* Faulty variant: the payloads keep the old name.
KeptPayloads(P) == P

(* rekeyPendingMutationPayloads                                            *)
Rekeyed(P) == {[e EXCEPT !.project = "B"] : e \in P}

(* Only a session with synced_at keeps where it comes from.                *)
Relocated(s) == IF s.synced THEN [s EXCEPT !.synced = FALSE, !.from = home] ELSE s

\* Faulty variant: the rows at the server are not journaled.
PromoteHereOnly(p) ==
  /\ home = "A" /\ lease[p] = ""
  /\ Saved # {} \/ session.state # "none"
  /\ \A m \in Memory : ~Ambiguous(m)
  /\ home' = "B"
  /\ session' = Relocated(session)
  /\ pending' = Rekeyed(pending)
  /\ UNCHANGED <<memories, unsynced, evidence, made, process, wire, server, faults>>

Promote(p) ==
  /\ home = "A" /\ lease[p] = ""
  /\ Saved # {} \/ session.state # "none"
  /\ \A m \in Memory : ~Ambiguous(m)
  /\ home' = "B"
  /\ session' = Relocated(session)
  /\ pending' = Rekeyed(pending) \union {Reproject(m) : m \in Saved \cap present}
  /\ UNCHANGED <<memories, unsynced, evidence, made, process, wire, server, faults>>

-----------------------------------------------------------------------------
(* A Drain of daemon p: batches under one lease, for the project that A    *)
(* resolves to when it begins.                                             *)

BeginDrain(p) ==
  /\ phase[p] = "idle"
  /\ phase' = [phase EXCEPT ![p] = "sessions"]
  /\ lease' = [lease EXCEPT ![p] = home]
  /\ UNCHANGED <<device, batch, reply, knows, wire, server, faults>>

(* The rows of another project than the lease's are not selected.          *)
UnsyncedSession(p) ==
  IF session.state # "none" /\ ~session.synced /\ home = lease[p]
    THEN session ELSE NoSession
UnsyncedRows(p) ==
  IF home = lease[p] THEN {m \in unsynced : memories[m] = "active"} ELSE {}
PendingMutations(p) == IF home = lease[p] THEN pending ELSE {}

SyncRequest(p, s, R, M) ==
  [from |-> p, project |-> lease[p], session |-> s, rows |-> R, muts |-> M]

(* The session gate: a batch with a session sends it alone.                *)
PushSession(p) ==
  /\ phase[p] = "sessions" /\ UnsyncedSession(p) # NoSession
  /\ batch' = [batch EXCEPT ![p].session = UnsyncedSession(p)]
  /\ wire' = wire \union {SyncRequest(p, UnsyncedSession(p), {}, {})}
  /\ phase' = [phase EXCEPT ![p] = "wait"]
  /\ UNCHANGED <<device, lease, reply, knows, server, faults>>

(* A failed read counts as no session: it is logged and the batch goes on. *)
PassGate(p) ==
  /\ phase[p] = "sessions"
  /\ \/ UnsyncedSession(p) = NoSession /\ UNCHANGED faults
     \/ UnsyncedSession(p) # NoSession /\ faults < MaxFaults /\ faults' = faults + 1
  /\ phase' = [phase EXCEPT ![p] = "rows"]
  /\ UNCHANGED <<device, lease, batch, reply, knows, wire, server>>

AtMost(S) == IF Cardinality(S) < PushPage THEN Cardinality(S) ELSE PushPage

ReadRows(p) ==
  /\ phase[p] = "rows"
  /\ \E R \in SUBSET UnsyncedRows(p) :
       /\ Cardinality(R) = AtMost(UnsyncedRows(p))
       /\ batch' = [batch EXCEPT ![p].rows = R]
  /\ phase' = [phase EXCEPT ![p] = "mutations"]
  /\ UNCHANGED <<device, lease, reply, knows, wire, server, faults>>

(* GetPendingMutations: reprojects first, then in journal order.           *)
Precedes(a, b) ==
  \/ a.op = "reproject" /\ b.op # "reproject"
  \/ a.op # "reproject" /\ b.op # "reproject" /\ a.n < b.n
IsPage(P, Q) ==
  /\ Cardinality(P) = AtMost(Q)
  /\ \A a \in P, b \in Q \ P : ~Precedes(b, a)

(* withheldUnsupportedMutations: until the server has said that it knows   *)
(* reprojects, nothing of a memory with one on the page is sent.           *)
Sendable(p, P) ==
  IF knows[p] THEN P
  ELSE {e \in P : \A r \in P : r.op = "reproject" => r.mem # e.mem}

(* Both dispatch marks are durable before the request leaves.              *)
PushRows(p) ==
  /\ phase[p] = "mutations"
  /\ \E P \in SUBSET PendingMutations(p) :
       LET out == Sendable(p, P) IN
       /\ IsPage(P, PendingMutations(p))
       /\ batch' = [batch EXCEPT ![p].muts = out]
       /\ rowMarks' = rowMarks \union ({p} \X batch[p].rows)
       /\ sent' = sent \union {e.mem : e \in {k \in out : k.op = "create"}}
       /\ wire' = wire \union {SyncRequest(p, NoSession, batch[p].rows, out)}
  /\ phase' = [phase EXCEPT ![p] = "wait"]
  /\ UNCHANGED <<home, session, memories, unsynced, pending, rejected, present,
                 made, lease, reply, knows, server, faults>>

(* A Drain that fails: nobody waits for its request any more, and no       *)
(* answer will resolve its marks.                                          *)
Orphaned(p, r) == IF r.from = p THEN [r EXCEPT !.from = Lost] ELSE r
Fail(p) ==
  /\ phase' = [phase EXCEPT ![p] = "idle"]
  /\ lease' = [lease EXCEPT ![p] = ""]
  /\ batch' = [batch EXCEPT ![p] = NoBatch]
  /\ reply' = [reply EXCEPT ![p] = NoReply]
  /\ rowMarks' = {IF k[1] = p THEN <<Lost, k[2]>> ELSE k : k \in rowMarks}
  /\ UNCHANGED <<home, session, memories, unsynced, pending, rejected, present,
                 sent, made>>

(* A timeout, a lost response, a SQLite error; or a restart, which forgets *)
(* what was learned of the server.  The request may still be served.       *)
Interrupt(p) ==
  /\ phase[p] # "idle" /\ faults < MaxFaults
  /\ faults' = faults + 1
  /\ Fail(p)
  /\ wire' = {Orphaned(p, r) : r \in wire}
  /\ \E kept \in {knows[p], FALSE} : knows' = [knows EXCEPT ![p] = kept]
  /\ UNCHANGED server

\* Faulty variant: the acknowledgement looks at nothing but the id.
UnchangedById(p) == home = lease[p]

(* AckSessionSnapshot: only a session that is still what was sent; two     *)
(* ends within a second are one.                                           *)
Unchanged(p) ==
  /\ home = lease[p] /\ ~session.synced
  /\ session.state = batch[p].session.state /\ session.from = batch[p].session.from
AckSession(p) ==
  /\ phase[p] = "ack" /\ batch[p].session # NoSession
  /\ session' = IF Unchanged(p) THEN [session EXCEPT !.synced = TRUE, !.from = ""]
                                ELSE session
  /\ batch' = [batch EXCEPT ![p].session = NoSession]
  /\ UNCHANGED <<home, memories, unsynced, pending, evidence, made, phase, lease,
                 reply, knows, wire, server, faults>>

(* A mutation-v2 response: memories[] of this request was ignored.         *)
ResolveRows(p) ==
  /\ phase[p] = "ack" /\ reply[p].v2 /\ batch[p].rows # {}
  /\ rowMarks' = {k \in rowMarks : k[1] # p}
  /\ batch' = [batch EXCEPT ![p].rows = {}]
  /\ UNCHANGED <<home, session, memories, unsynced, pending, rejected, present,
                 sent, made, phase, lease, reply, knows, wire, server, faults>>

MarkSynced(p, m) ==
  /\ phase[p] = "ack" /\ ~reply[p].v2 /\ m \in batch[p].rows
  /\ unsynced' = unsynced \ {m}
  /\ present' = present \union {m}
  /\ rowMarks' = {k \in rowMarks : k[2] # m}
  /\ batch' = [batch EXCEPT ![p].rows = @ \ {m}]
  /\ UNCHANGED <<home, session, memories, pending, rejected, sent, made, phase,
                 lease, reply, knows, wire, server, faults>>

EndBatch(p) ==
  /\ phase' = [phase EXCEPT ![p] = "between"]
  /\ batch' = [batch EXCEPT ![p] = NoBatch]
  /\ reply' = [reply EXCEPT ![p] = NoReply]

(* SaveFromRemote of rows this device already has.                         *)
SavePulled(p) ==
  /\ phase[p] = "ack" /\ batch[p].session = NoSession /\ batch[p].rows = {}
  /\ present' = present \union reply[p].pulled
  /\ IF reply[p].v2
       THEN phase' = [phase EXCEPT ![p] = "reject"] /\ UNCHANGED <<batch, reply>>
       ELSE EndBatch(p)
  /\ UNCHANGED <<home, session, memories, unsynced, pending, rejected, rowMarks,
                 sent, made, lease, knows, wire, server, faults>>

(* A mutation is found again by its event_id, whatever its payload says    *)
(* by now.                                                                 *)
Without(P, Q) == {e \in P : \A k \in Q : Id(k) # Id(e)}

MarkRejected(p) ==
  /\ phase[p] = "reject"
  /\ pending' = Without(pending, reply[p].refused)
  /\ rejected' = Without(rejected, reply[p].refused) \union reply[p].refused
  /\ phase' = [phase EXCEPT ![p] = "confirm"]
  /\ UNCHANGED <<home, session, memories, unsynced, present, rowMarks, sent, made,
                 lease, batch, reply, knows, wire, server, faults>>

\* Faulty variant: the confirmation does not say that the memory is there.
MarkConfirmedOnly(p) ==
  LET confirmed == reply[p].confirmed
      created == {e.mem : e \in {k \in confirmed : k.op = "create"}} IN
  /\ phase[p] = "confirm"
  /\ pending' = Without(pending, confirmed)
  /\ rejected' = Without(rejected, confirmed)
  /\ unsynced' = unsynced \ created
  /\ rowMarks' = {k \in rowMarks : k[2] \notin created}
  /\ EndBatch(p)
  /\ UNCHANGED <<home, session, memories, present, sent, made, lease, knows, wire,
                 server, faults>>

MarkConfirmed(p) ==
  LET confirmed == reply[p].confirmed
      created == {e.mem : e \in {k \in confirmed : k.op = "create"}} IN
  /\ phase[p] = "confirm"
  /\ pending' = Without(pending, confirmed)
  /\ rejected' = Without(rejected, confirmed)
  /\ present' = present \union {e.mem : e \in confirmed}
  /\ unsynced' = unsynced \ created
  /\ rowMarks' = {k \in rowMarks : k[2] \notin created}
  /\ EndBatch(p)
  /\ UNCHANGED <<home, session, memories, sent, made, lease, knows, wire, server,
                 faults>>

NextBatch(p) ==
  /\ phase[p] = "between"
  /\ phase' = [phase EXCEPT ![p] = "sessions"]
  /\ UNCHANGED <<device, lease, batch, reply, knows, wire, server, faults>>

EndDrain(p) ==
  /\ phase[p] = "between"
  /\ phase' = [phase EXCEPT ![p] = "idle"]
  /\ lease' = [lease EXCEPT ![p] = ""]
  /\ UNCHANGED <<device, batch, reply, knows, wire, server, faults>>

-----------------------------------------------------------------------------
(* hive-api: a request is one transaction, serialised by its project.      *)

(* UpsertSession: an existing row is changed only if it is in the project  *)
(* the request names as its source, its own project if it names none.  A   *)
(* row that moves keeps its lifecycle state.                               *)
Upserted(row, r) ==
  LET source == IF r.session.from # "" THEN r.session.from ELSE r.project IN
  IF r.session.state = "none" THEN row
  ELSE IF row.state = "none" THEN [state |-> r.session.state, project |-> r.project]
  ELSE IF row.project # source THEN row
  ELSE IF row.project = r.project THEN [row EXCEPT !.state = r.session.state]
  ELSE [row EXCEPT !.project = r.project]

Move(row, e) ==
  CASE e.op = "create" -> [state |-> "active", project |-> e.project]
    [] e.op = "delete" -> [row EXCEPT !.state = "deleted"]
    [] e.op = "restore" -> [row EXCEPT !.state = "active"]
    [] e.op = "reproject" -> [row EXCEPT !.project = "B"]

(* mutationProjectMismatch; the row of another project                     *)
Misnamed(e, r) == e.op = "create" /\ e.project # r.project
Elsewhere(s, e, r) ==
  e.op # "reproject" /\ s.row.state # "none" /\ s.row.project # r.project

IsKnown(s, e) == Id(e) \in seen \union {Id(k) : k \in s.applied}
IsDone(s, e) ==
  \/ e.op = "create" /\ s.row.state # "none"
  \/ e.op = "reproject" /\ s.row.project = "B"
IsImpossible(s, e) ==
  \/ e.op \in {"delete", "reproject"} /\ s.row.state = "none"
  \/ e.op = "restore" /\ s.row.state # "deleted"

(* s: the row, and the mutations applied, confirmed (applied or a          *)
(* duplicate) and refused.  The checks in the order of the code.           *)
Handled(s, e, r) ==
  LET confirmed == [s EXCEPT !.confirmed = @ \union {e}]
      refused == [s EXCEPT !.refused = @ \union {e}] IN
  IF Misnamed(e, r) THEN refused
  ELSE IF IsKnown(s, e) THEN confirmed
  ELSE IF Elsewhere(s, e, r) THEN refused
  ELSE IF IsDone(s, e) THEN confirmed
  ELSE IF IsImpossible(s, e) THEN refused
  ELSE [confirmed EXCEPT !.row = Move(@, e), !.applied = @ \union {e}]

(* The mutations of one memory in the order of the request.                *)
Outcome(m, r) ==
  LET mine == {e \in r.muts : e.mem = m}
      start == [row |-> remote[m], confirmed |-> {}, refused |-> {}, applied |-> {}]
      after[n \in 0 .. MaxOps] ==
        LET s == IF n = 0 THEN start ELSE after[n - 1]
            here == {e \in mine : e.n = n} IN
        IF here = {} THEN s ELSE Handled(s, CHOOSE e \in here : TRUE, r) IN
  after[MaxOps]

(* Upsert of memories[], which a request with mutations has ignored.       *)
Inserted(m, r) ==
  IF m \in r.rows /\ remote[m].state = "none"
    THEN [state |-> "active", project |-> r.project] ELSE remote[m]

(* validateSessionAttribution for memories[], and the foreign key of a row *)
(* a create would insert: either fails the whole request.                  *)
Unattributed(r) ==
  IF r.muts = {}
    THEN r.rows # {} /\ (remoteSession.state = "none" \/ remoteSession.project # r.project)
    ELSE /\ remoteSession.state = "none"
         /\ \E m \in Memory : \E e \in Outcome(m, r).applied : e.op = "create"

Waiting(r) == r.from # Lost

Serve(r) ==
  LET v2 == r.muts # {}
      out == [m \in Memory |-> Outcome(m, r)] IN
  /\ r \in wire /\ ~Unattributed(r)
  /\ wire' = wire \ {r}
  /\ remoteSession' = Upserted(remoteSession, r)
  /\ remote' = [m \in Memory |-> IF v2 THEN out[m].row ELSE Inserted(m, r)]
  /\ seen' = seen \union UNION {{Id(e) : e \in out[m].applied} : m \in Memory}
  /\ IF Waiting(r)
       THEN /\ \E S \in SUBSET {m \in Memory \ r.rows :
                                  remote'[m] = [state |-> "active", project |-> r.project]} :
                 reply' = [reply EXCEPT ![r.from] =
                   [v2 |-> v2, pulled |-> S,
                    confirmed |-> UNION {out[m].confirmed : m \in Memory},
                    refused |-> UNION {out[m].refused : m \in Memory}]]
            /\ phase' = [phase EXCEPT ![r.from] = "ack"]
            /\ knows' = [knows EXCEPT ![r.from] = TRUE]
       ELSE UNCHANGED <<reply, phase, knows>>
  /\ UNCHANGED <<device, lease, batch, faults>>

(* The transaction rolls back and the Drain ends.                          *)
Reject(r) ==
  /\ r \in wire /\ Unattributed(r)
  /\ wire' = wire \ {r}
  /\ IF Waiting(r) THEN Fail(r.from) /\ UNCHANGED knows
                   ELSE UNCHANGED <<device, process>>
  /\ UNCHANGED <<server, faults>>

(* A request nobody waits for any more never arrives.                      *)
Drop(r) ==
  /\ r \in wire /\ ~Waiting(r)
  /\ wire' = wire \ {r}
  /\ UNCHANGED <<device, process, server, faults>>

-----------------------------------------------------------------------------
DrainStep(p) ==
  \/ PushSession(p) \/ PassGate(p) \/ ReadRows(p) \/ PushRows(p)
  \/ AckSession(p) \/ ResolveRows(p) \/ (\E m \in Memory : MarkSynced(p, m))
  \/ SavePulled(p) \/ MarkRejected(p) \/ MarkConfirmed(p)
  \/ NextBatch(p) \/ EndDrain(p)

Local == EndSession \/ \E m \in Memory : Save(m) \/ Delete(m) \/ Restore(m)

Next ==
  \/ Local
  \/ \E p \in Daemon :
       Promote(p) \/ BeginDrain(p) \/ DrainStep(p) \/ Interrupt(p)
  \/ \E r \in wire : Serve(r) \/ Reject(r) \/ Drop(r)

Spec == Init /\ [][Next]_vars

(* The timer begins Drains for ever; a Drain and its request go on.        *)
FairSpec ==
  /\ Spec
  /\ \A p \in Daemon : WF_vars(BeginDrain(p)) /\ WF_vars(DrainStep(p))
  /\ WF_vars(\E r \in wire : Serve(r) \/ Reject(r))

-----------------------------------------------------------------------------
TypeOK ==
  /\ home \in Project /\ session \in Session
  /\ memories \in [Memory -> {"none", "active", "deleted"}]
  /\ unsynced \subseteq Memory /\ pending \subseteq Mutation
  /\ rejected \subseteq Mutation /\ present \subseteq Memory
  /\ rowMarks \subseteq (Daemon \union {Lost}) \X Memory /\ sent \subseteq Memory
  /\ made \in 0 .. MaxOps /\ faults \in 0 .. MaxFaults
  /\ phase \in [Daemon -> Phase] /\ lease \in [Daemon -> Project \union {""}]
  /\ batch \in [Daemon -> Batch] /\ reply \in [Daemon -> Reply]
  /\ knows \in [Daemon -> BOOLEAN]
  /\ wire \subseteq Request
  /\ remoteSession \in [state : {"none", "open", "ended"}, project : Project \union {""}]
  /\ remote \in [Memory -> Row] /\ seen \subseteq Event

PendingOf(m) == {e \in pending : e.mem = m}
Arrived(m) == remote[m] = [state |-> memories[m], project |-> home]
SessionSplit == session.synced /\ remoteSession.project # home

(* A saved memory with nothing left to send is at the server as it is      *)
(* here: in its state and in its project, on whichever side of the         *)
(* promotion its changes were made, sent or applied                        *)
(* (enqueuePromotionMemoryReprojections and the ambiguity refusal of       *)
(* MergeGovernanceProjectTx).                                              *)
MemoriesFollow == \A m \in Saved : PendingOf(m) = {} => Arrived(m)

(* The server rejects no change: none reaches it before the change it      *)
(* rests on, or under a project its memory is not in (the rekeyed          *)
(* payloads, the order of GetPendingMutations, what is withheld from a     *)
(* server that does not know reprojects).                                  *)
NothingIsDropped == rejected = {}

(* A promotion while another process is in the middle of a Drain.          *)
PromotedOverDrain ==
  \E p \in Daemon : Promote(p) /\ \E q \in Daemon : lease[q] # ""

(* While the device works in one project and nothing has failed, a session *)
(* marked shared is at the server as it is here: ending or reopening it    *)
(* while it is on its way keeps it unshared (AckSessionSnapshot).          *)
SessionIsShared ==
  session.synced /\ home = "A" /\ faults = 0 =>
    remoteSession = [state |-> session.state, project |-> home]

(* A session marked shared is at the server in the device's project.       *)
SessionsFollow == ~SessionSplit

(* Every saved memory arrives, for good, in its final state and project,   *)
(* unless the session stays behind: then the server may refuse the         *)
(* session's memories for ever.                                            *)
MemoriesArrive ==
  \A m \in Memory : <>[](m \in Saved => Arrived(m)) \/ <>[]SessionSplit

(* The same without the exception.                                         *)
MemoriesAlwaysArrive == \A m \in Memory : <>[](m \in Saved => Arrived(m))

(* What makes the promotion refuse a memory as ambiguous is cleared by the *)
(* next Drains: by the answer, or by the row coming back with the pull.    *)
AmbiguityClears ==
  \A m \in Memory : (home = "A" /\ Ambiguous(m)) ~> ~Ambiguous(m)
=============================================================================
